---- MODULE Spec2Model ----
(***************************************************************************)
(* Model of the external-task orchestration layer of the AI Travel Planner *)
(* backend: the upload -> recognize -> cleanup chain of                    *)
(* app/routers/asr.py (recognize_audio), the bounded polling loop of       *)
(* app/services/asr_service.py (recognize_with_polling), the object store  *)
(* of app/services/oss_service.py and the envelope reader of               *)
(* app/services/ai_service.py (extract_text); the plan request of          *)
(* app/routers/ai.py (generate_and_create_plan) with invoke_completion and *)
(* PlanService.create_plan; the routes of app/routers/oss.py; the          *)
(* operations of app/services/auth_service.py on the client of             *)
(* app/database.py; and the cache decorator of app/utils/cache.py.         *)
(*                                                                         *)
(* Python strings are TLA+ strings.  The messages of the source are        *)
(* Chinese; each is written here in ASCII, one constant per message.       *)
(* Python's None is the string None where a string is expected.            *)
(***************************************************************************)
EXTENDS Integers, Sequences, FiniteSets, TLC

VARIABLES
    pc,             \* position of the request inside recognize_audio
    filename,       \* file.filename of the uploaded form part
    max_retries,    \* parameter of recognize_with_polling
    file_url,       \* local of recognize_audio
    bucket,         \* object names held by the OSS bucket
    delete_calls,   \* the calls of OSSService.delete_file, in order
    task_id,        \* local of recognize_with_polling
    attempt,        \* number of loop iterations of the polling loop begun
    result,         \* local of recognize_with_polling: the last snapshot
    calls,          \* numbers of remote calls made and of sleeps taken
    query_calls,    \* the task ids query_task was called with
    fetch_calls,    \* the addresses get_transcription_text was called with
    fetched,        \* the last document get_transcription_text retrieved
    response,       \* what recognize_audio gave back to the host
    upload,         \* history: how upload_audio ended
    recognition,    \* history: how recognize_with_polling ended
    envelope,       \* argument of AIService.extract_text
    extracted,      \* outcome of AIService.extract_text
    gen_pc,         \* position of the request inside generate_and_create_plan
    api_key,        \* request.api_key of the GeneratePlanRequest
    bailian_api_key,\* settings.bailian_api_key
    completion,     \* history: what the remote end did with the POST
    invoked,        \* history: how invoke_completion ended
    ai_data,        \* local of generate_and_create_plan: json.loads(text_content)
    today,          \* datetime.now() read by generate_and_create_plan
    plan_data,      \* local of generate_and_create_plan: the row to insert
    created,        \* history: how PlanService.create_plan ended
    gen_calls,      \* numbers of times each step of the request ran
    gen_response,   \* the GeneratePlanResponse given back to the host
    removal,        \* history: what bucket.delete_object did in /oss/delete
    delete_result,  \* history: how delete_file ended in /oss/delete
    oss_response,   \* what the routes of /oss gave back to the host
    supabase_client,\* the module global _supabase_client of app/database.py
    client_session, \* the session held by the auth part of that client
    auth_log,       \* history: the requests AuthService handled, in order
    cache,          \* the dict _cache._cache of app/utils/cache.py
    clock,          \* datetime.now(), in seconds
    wrapper_calls,  \* history: the calls of the cached function, in order
    stores          \* history: the calls of _cache.set, in order

vars == <<pc, filename, max_retries, file_url, bucket, delete_calls, task_id,
          attempt, result, calls, query_calls, fetch_calls,
              fetched, response,
          upload, recognition, envelope, extracted,
          gen_pc, api_key, bailian_api_key, completion, invoked, ai_data,
          today, plan_data, created, gen_calls, gen_response,
          removal, delete_result, oss_response,
          supabase_client, client_session, auth_log,
          cache, clock, wrapper_calls, stores>>

asrVars == <<pc, filename, max_retries, file_url, bucket, delete_calls,
             task_id, attempt, result, calls, query_calls, fetch_calls,
              fetched, response,
             upload, recognition>>

aiVars == <<envelope, extracted>>

planVars == <<gen_pc, api_key, bailian_api_key, completion, invoked, ai_data,
              today, plan_data, created, gen_calls, gen_response>>

\* the locals of recognize_audio: asrVars without the bucket
sagaVars == <<pc, filename, max_retries, file_url, task_id, attempt, result,
              calls, query_calls, fetch_calls,
              fetched, response, upload, recognition>>

ossVars == <<removal, delete_result, oss_response>>

authVars == <<supabase_client, client_session, auth_log>>

cacheVars == <<cache, clock, wrapper_calls, stores>>

\* what a step of recognize_audio leaves alone
exceptAsr == <<aiVars, planVars, ossVars, authVars, cacheVars>>

\* what a request to /oss leaves alone, the locals of recognize_audio apart
exceptOss == <<aiVars, planVars, authVars, cacheVars>>

\* what a step of generate_and_create_plan leaves alone
exceptPlan == <<asrVars, ossVars, authVars, cacheVars>>

\* what an operation of AuthService leaves alone
exceptAuth == <<asrVars, aiVars, planVars, ossVars, cacheVars>>

\* what a call of a cached function leaves alone
exceptCache == <<asrVars, aiVars, planVars, ossVars, authVars>>

-----------------------------------------------------------------------------
(* Bounds of the model *)

MaxRetriesBound == 3

\* the number of requests to /oss/delete
MaxDeleteCalls == 2

\* the number of requests AuthService handles
MaxAuthRequests == 2

\* the number of calls of the cached function
MaxWrapperCalls == 2

\* the last reading of the clock, in seconds
MaxClock == 60

-----------------------------------------------------------------------------
(* Python values *)

None == "None"

\* Python truthiness of an Optional[str]
Truthy(s) == s # None /\ s # ""

\* s[i:] and s[:i] of Python, 1-based here
Drop(s, n) == SubSeq(s, n + 1, Len(s))
Take(s, n) == SubSeq(s, 1, n)

StartsWith(s, p) == Len(p) <= Len(s) /\ Take(s, Len(p)) = p

\* sub in s
Contains(s, sub) == \E i \in 0..(Len(s) - Len(sub)) : StartsWith(Drop(s, i), sub)

\* s.find(sub), 0-based; only used where sub occurs in s
Find(s, sub) == CHOOSE i \in 0..(Len(s) - Len(sub)) :
                    /\ StartsWith(Drop(s, i), sub)
                    /\ \A j \in 0..(i - 1) : ~StartsWith(Drop(s, j), sub)

\* s.split(sep) for a non-empty sep
RECURSIVE split(_, _)
split(s, sep) ==
    IF Contains(s, sep)
    THEN <<Take(s, Find(s, sep))>> \o split(Drop(s, Find(s, sep) + Len(sep)), sep)
    ELSE <<s>>

\* parts[-1]
Last(parts) == parts[Len(parts)]

\* "\n".join(parts)
RECURSIVE join(_, _)
join(sep, parts) ==
    IF parts = <<>> THEN ""
    ELSE IF Len(parts) = 1 THEN parts[1]
    ELSE parts[1] \o sep \o join(sep, Tail(parts))

-----------------------------------------------------------------------------
(* Settings (app/config.py) and the values the environment supplies *)

oss_bucket == "bkt"
oss_region == "oss-cn"

\* file.filename of the form part; None when the part carries no name
FileNames == {None, "voice", "a.tar.gz", "a.", "bkt.oss-cn.aliyuncs.com/k"}

\* datetime.now().strftime("%Y%m%d_%H%M%S") and str(uuid.uuid4())[:8]
Timestamps == {"20250101_093000"}
UniqueIds == {"0a1b2c3d"}

\* An exception: its class and str(e)
Exc(type, msg) == [type |-> type, msg |-> msg]

-----------------------------------------------------------------------------
(* OSSService (app/services/oss_service.py) *)

\* the object key generated by upload_audio
ObjectName(timestamp, unique_id, file_extension) ==
    "audio/" \o timestamp \o "_" \o unique_id \o "." \o file_extension

\* variant: a path-style address, the bucket after the host
PublicUrlPathStyle(object_name) ==
    "https://" \o oss_region \o ".aliyuncs.com/" \o oss_bucket \o "/" \o object_name

\* the public address upload_audio returns
PublicUrl(object_name) ==
    "https://" \o oss_bucket \o "." \o oss_region \o ".aliyuncs.com/" \o object_name

\* variant: the first part of the split instead of the last
ExtractObjectNameFirstPart(url) ==
    split(url, oss_bucket \o "." \o oss_region \o ".aliyuncs.com/")[1]

\* the object key delete_file takes from an address
ExtractObjectName(url) ==
    Last(split(url, oss_bucket \o "." \o oss_region \o ".aliyuncs.com/"))

\* the extension recognize_audio passes to upload_audio
FileExtension(name) ==
    IF Truthy(name) /\ Contains(name, ".") THEN Last(split(name, ".")) ELSE "wav"

\* str(e) of what file.read() and bucket.put_object raise
ReadFailedMessage == "read failed"
PutObjectFailedMessage == "put_object failed"

\* One call of delete_file: removed tells whether bucket.delete_object
\* completed; when it raised, the except branch returns False.
DeleteCall(url, removed) ==
    [file_url |-> url, object_name |-> ExtractObjectName(url), returned |-> removed]

BucketAfterDelete(b, url, removed) ==
    IF removed THEN b \ {ExtractObjectName(url)} ELSE b

-----------------------------------------------------------------------------
(* ASRService (app/services/asr_service.py): the remote replies *)

\* Messages of the source, in ASCII
SubmitFailedMessage == "submit recognition task failed"
SubmitFaultPrefix == "submit recognition task error: "
QueryFailedMessage == "query task failed"
QueryFaultPrefix == "query task error: "
FetchFaultPrefix == "fetch recognition result failed: "
MissingResultMessage == "recognition result not found"
TaskFailedMessage == "recognition task failed"
PollingTimeoutMessage == "recognition task timed out"

\* What the remote end does with one HTTP request:
\*   ok          2xx with a JSON body
\*   http_error  raise_for_status raised HTTPStatusError; message is the
\*               "message" of the JSON error body, "" when it has none
\*   fault       any other exception (timeout, connection, bad JSON);
\*               message is its str()
HttpErrors == {[kind |-> "http_error", message |-> m] : m \in {"", "InvalidApiKey"}}
Faults == {[kind |-> "fault", message |-> "ConnectTimeout"]}

\* One element of output.results: a dict with optional keys
ResultItem(has_url, url, has_message, message) ==
    [has_transcription_url |-> has_url, transcription_url |-> url,
     has_message |-> has_message, message |-> message]

ResultItems ==
    { ResultItem(FALSE, "", FALSE, ""),
      ResultItem(TRUE, "", FALSE, ""),
      ResultItem(TRUE, "https://result/R1", FALSE, ""),
      ResultItem(FALSE, "", TRUE, "bad audio") }

ResultLists ==
    {<<>>} \cup {<<r>> : r \in ResultItems}
           \cup {<<ResultItem(TRUE, "https://result/R1", FALSE, ""),
                   ResultItem(TRUE, "https://result/R2", FALSE, "")>>}

TaskStatuses == {"PENDING", "RUNNING", "SUCCEEDED", "FAILED", "UNKNOWN"}

\* The JSON body of a query reply: "output", "task_status" and "results" may
\* each be missing.
Snapshot(has_output, has_status, status, has_results, results) ==
    [has_output |-> has_output, has_task_status |-> has_status,
     task_status |-> status, has_results |-> has_results, results |-> results]

NoSnapshot == Snapshot(FALSE, FALSE, None, FALSE, <<>>)

\* results lists sent along with a status that is neither SUCCEEDED nor FAILED
PendingResultLists ==
    {<<>>, <<ResultItem(TRUE, "https://result/R1", FALSE, "")>>}

Snapshots ==
    {NoSnapshot}
    \cup {Snapshot(TRUE, FALSE, None, FALSE, <<>>)}
    \cup {Snapshot(TRUE, FALSE, None, TRUE, rs) : rs \in PendingResultLists}
    \cup {Snapshot(TRUE, TRUE, st, FALSE, <<>>) : st \in TaskStatuses}
    \cup {Snapshot(TRUE, TRUE, st, TRUE, rs) :
              st \in {"SUCCEEDED", "FAILED"}, rs \in ResultLists}
    \cup {Snapshot(TRUE, TRUE, st, TRUE, rs) :
              st \in TaskStatuses \ {"SUCCEEDED", "FAILED"}, rs \in PendingResultLists}

\* One transcript segment and the result document behind a transcription_url
Segment(has_text, text) == [has_text |-> has_text, text |-> text]

Documents ==
    { [has_transcripts |-> FALSE, transcripts |-> <<>>],
      [has_transcripts |-> TRUE, transcripts |-> <<>>],
      [has_transcripts |-> TRUE, transcripts |-> <<Segment(TRUE, "hello")>>],
      [has_transcripts |-> TRUE,
       transcripts |-> <<Segment(TRUE, "hello"), Segment(TRUE, "world")>>],
      [has_transcripts |-> TRUE,
       transcripts |-> <<Segment(TRUE, "world"), Segment(TRUE, ""), Segment(TRUE, "hello")>>],
      [has_transcripts |-> TRUE,
       transcripts |-> <<Segment(TRUE, "hello"), Segment(FALSE, "")>>] }

NoDocument == [has_transcripts |-> FALSE, transcripts |-> <<>>]

SubmitReplies == {[kind |-> "ok", message |-> t] : t \in {"T1", "T2"}} \cup HttpErrors \cup Faults
QueryReplies == HttpErrors \cup Faults
FetchReplies == {[kind |-> "fault", message |-> m] : m \in {"ConnectTimeout", "404 Not Found"}}

\* Outcome of a service call: a value or an exception
Returned(v) == [raised |-> FALSE, value |-> v, exc |-> Exc("", "")]
Raised(e) == [raised |-> TRUE, value |-> "", exc |-> e]

\* error_data.get("message") or default
MessageOr(message, default) == IF message # "" THEN message ELSE default

\* submit_task on a remote reply
submit_task(reply) ==
    IF reply.kind = "ok" THEN Returned(reply.message)
    ELSE IF reply.kind = "http_error"
         THEN Raised(Exc("Exception", MessageOr(reply.message, SubmitFailedMessage)))
         ELSE Raised(Exc("Exception", SubmitFaultPrefix \o reply.message))

\* the except branches of query_task
query_task_error(reply) ==
    IF reply.kind = "http_error"
    THEN Exc("Exception", MessageOr(reply.message, QueryFailedMessage))
    ELSE Exc("Exception", QueryFaultPrefix \o reply.message)

\* [t["text"] for t in transcripts]: a KeyError when a segment has no text
SegmentTexts(transcripts) == [i \in 1..Len(transcripts) |-> transcripts[i].text]

\* variant: the segments are joined by blanks
get_transcription_text_blanks(doc) ==
    LET transcripts == IF doc.has_transcripts THEN doc.transcripts ELSE <<>>
    IN  IF \E i \in 1..Len(transcripts) : ~transcripts[i].has_text
        THEN Raised(Exc("Exception", FetchFaultPrefix \o "'text'"))
        ELSE Returned(join(" ", SegmentTexts(transcripts)))

\* get_transcription_text on a retrieved document
get_transcription_text(doc) ==
    LET transcripts == IF doc.has_transcripts THEN doc.transcripts ELSE <<>>
    IN  IF \E i \in 1..Len(transcripts) : ~transcripts[i].has_text
        THEN Raised(Exc("Exception", FetchFaultPrefix \o "'text'"))
        ELSE Returned(join("\n", SegmentTexts(transcripts)))

\* the except branch of get_transcription_text when the GET itself failed
get_transcription_text_error(reply) ==
    Exc("Exception", FetchFaultPrefix \o reply.message)

-----------------------------------------------------------------------------
(* recognize_with_polling: the decisions of the loop *)

DefaultMaxRetries == 60

\* variant: one iteration too many
InRangeInclusive(i, n) == i <= n

\* for _ in range(max_retries): is there an iteration number i (from 0)?
InRange(i, n) == i < n

\* variant: a snapshot without a status counts as FAILED
TaskStatusOfAbsentFailed(snapshot) ==
    IF snapshot.has_output /\ snapshot.has_task_status THEN snapshot.task_status ELSE "FAILED"

\* result.get("output", {}).get("task_status")
TaskStatusOf(snapshot) ==
    IF snapshot.has_output /\ snapshot.has_task_status THEN snapshot.task_status ELSE None

\* result.get("output", {}).get("results", default)
ResultsOf(snapshot, default) ==
    IF snapshot.has_output /\ snapshot.has_results THEN snapshot.results ELSE default

\* results[0].get("transcription_url")
TranscriptionUrlOf(item) ==
    IF item.has_transcription_url THEN item.transcription_url ELSE None

Fetch(url) == [kind |-> "fetch", url |-> url, exc |-> Exc("", "")]
Raise(e) == [kind |-> "raise", url |-> None, exc |-> e]
SleepOn == [kind |-> "sleep", url |-> None, exc |-> Exc("", "")]

\* variant: a SUCCEEDED snapshot without an address is polled again
OnSucceededRetrying(snapshot) ==
    LET results == ResultsOf(snapshot, <<>>)
    IN  IF results # <<>> /\ Truthy(TranscriptionUrlOf(results[1]))
        THEN Fetch(results[1].transcription_url)
        ELSE SleepOn

\* variant: the address is taken from the last result of the snapshot
OnSucceededLastResult(snapshot) ==
    LET results == ResultsOf(snapshot, <<>>)
    IN  IF results # <<>> /\ Truthy(TranscriptionUrlOf(results[1]))
        THEN Fetch(results[Len(results)].transcription_url)
        ELSE Raise(Exc("Exception", MissingResultMessage))

\* the branch taken when task_status == "SUCCEEDED"
OnSucceeded(snapshot) ==
    LET results == ResultsOf(snapshot, <<>>)
    IN  IF results # <<>> /\ Truthy(TranscriptionUrlOf(results[1]))
        THEN Fetch(results[1].transcription_url)
        ELSE Raise(Exc("Exception", MissingResultMessage))

\* the branch taken when task_status == "FAILED"
OnFailed(snapshot) ==
    LET results == ResultsOf(snapshot, <<ResultItem(FALSE, "", FALSE, "")>>)
    IN  IF results = <<>>
        THEN Raise(Exc("IndexError", "list index out of range"))
        ELSE Raise(Exc("Exception",
                       IF results[1].has_message THEN results[1].message
                                                 ELSE TaskFailedMessage))

\* variant: the FAILED branch is missing
PollDecisionWithoutFailed(snapshot) ==
    IF TaskStatusOf(snapshot) = "SUCCEEDED" THEN OnSucceeded(snapshot)
    ELSE SleepOn

\* the body of the loop after the query returned
PollDecision(snapshot) ==
    IF TaskStatusOf(snapshot) = "SUCCEEDED" THEN OnSucceeded(snapshot)
    ELSE IF TaskStatusOf(snapshot) = "FAILED" THEN OnFailed(snapshot)
    ELSE SleepOn

-----------------------------------------------------------------------------
(* recognize_audio (app/routers/asr.py) *)

NoResponse == [status_code |-> 0, text |-> "", detail |-> ""]

DeleteFailedMessage == "delete OSS file failed"

\* variant: a failed delete replaces the transcript by an error
recognize_audio_return_checked(text, removed) ==
    /\ delete_calls' = Append(delete_calls, DeleteCall(file_url, removed))
    /\ bucket' = BucketAfterDelete(bucket, file_url, removed)
    /\ response' = IF removed
                   THEN [status_code |-> 200, text |-> text, detail |-> ""]
                   ELSE [status_code |-> 500, text |-> "", detail |-> DeleteFailedMessage]
    /\ pc' = "done"

\* steps 3 and the return: delete the temporary file, answer 200
recognize_audio_return(text, removed) ==
    /\ delete_calls' = Append(delete_calls, DeleteCall(file_url, removed))
    /\ bucket' = BucketAfterDelete(bucket, file_url, removed)
    /\ response' = [status_code |-> 200, text |-> text, detail |-> ""]
    /\ pc' = "done"

\* variant: the except branch does not clean up
recognize_audio_except_no_cleanup(url, e, removed) ==
    /\ UNCHANGED <<delete_calls, bucket>>
    /\ response' = [status_code |-> 500, text |-> "", detail |-> e.msg]
    /\ pc' = "done"

\* variant: the except branch cleans up without looking at the address
recognize_audio_except_unguarded(url, e, removed) ==
    /\ delete_calls' = Append(delete_calls, DeleteCall(url, removed))
    /\ bucket' = BucketAfterDelete(bucket, url, removed)
    /\ response' = [status_code |-> 500, text |-> "", detail |-> e.msg]
    /\ pc' = "done"

\* the except branch: clean up when an address exists, answer 500 with str(e)
recognize_audio_except(url, e, removed) ==
    /\ IF Truthy(url)
       THEN /\ delete_calls' = Append(delete_calls, DeleteCall(url, removed))
            /\ bucket' = BucketAfterDelete(bucket, url, removed)
       ELSE UNCHANGED <<delete_calls, bucket>>
    /\ response' = [status_code |-> 500, text |-> "", detail |-> e.msg]
    /\ pc' = "done"

-----------------------------------------------------------------------------
(* The request: one action per suspension point of recognize_audio.        *)
(* upload_audio and delete_file contain no await of their own, so the code *)
(* between two remote calls runs as one step.                              *)

OtherObjects == {"audio/20240101_000000_12345678.wav"}

NoCalls == [submit |-> 0, query |-> 0, nonterminal |-> 0, sleep |-> 0, fetch |-> 0]

Count(field) == [calls EXCEPT ![field] = @ + 1]

\* a call that has not ended
Pending == [raised |-> FALSE, value |-> None, exc |-> Exc("", "")]

NotUploaded == [state |-> "none", url |-> None, object_name |-> None]

TimedOut == Raised(Exc("Exception", PollingTimeoutMessage))

InitAsr ==
    /\ pc = "read"
    /\ filename \in FileNames
    /\ max_retries \in (0..MaxRetriesBound) \cup {DefaultMaxRetries}
    /\ max_retries = DefaultMaxRetries => filename = "a.tar.gz"
    /\ file_url = None
    /\ bucket = OtherObjects
    /\ delete_calls = <<>>
    /\ task_id = None
    /\ attempt = 0
    /\ result = NoSnapshot
    /\ calls = NoCalls
    /\ query_calls = <<>>
    /\ fetch_calls = <<>>
    /\ fetched = NoDocument
    /\ response = NoResponse
    /\ upload = NotUploaded
    /\ recognition = Pending

\* content = await file.read()
ReadFile ==
    /\ pc = "read"
    /\ \/ /\ pc' = "upload"
          /\ UNCHANGED <<delete_calls, bucket, response>>
       \/ \E removed \in BOOLEAN :
             recognize_audio_except(file_url, Exc("Exception", ReadFailedMessage), removed)
    /\ UNCHANGED <<filename, max_retries, file_url, task_id, attempt, result,
                   calls, query_calls, fetch_calls,
              fetched, upload, recognition, exceptAsr>>

\* file_url = await oss_service.upload_audio(content, file_extension)
UploadAudio ==
    /\ pc = "upload"
    /\ \/ \E timestamp \in Timestamps, unique_id \in UniqueIds :
            LET object_name == ObjectName(timestamp, unique_id, FileExtension(filename))
            IN  /\ bucket' = bucket \cup {object_name}
                /\ file_url' = PublicUrl(object_name)
                /\ upload' = [state |-> "ok", url |-> PublicUrl(object_name),
                              object_name |-> object_name]
                /\ pc' = "submit"
                /\ UNCHANGED <<delete_calls, response>>
       \/ /\ \E removed \in BOOLEAN :
               recognize_audio_except(file_url, Exc("OssError", PutObjectFailedMessage), removed)
          /\ upload' = [upload EXCEPT !.state = "failed"]
          /\ UNCHANGED file_url
    /\ UNCHANGED <<filename, max_retries, task_id, attempt, result,
                   calls, query_calls, fetch_calls,
              fetched, recognition, exceptAsr>>

\* task_id = await self.submit_task(file_url, api_key), up to the first query
SubmitTask ==
    /\ pc = "submit"
    /\ calls' = Count("submit")
    /\ attempt' = 0
    /\ \E reply \in SubmitReplies, removed \in BOOLEAN :
         LET r == submit_task(reply)
         IN  IF r.raised
             THEN /\ recognize_audio_except(file_url, r.exc, removed)
                  /\ recognition' = r
                  /\ UNCHANGED task_id
             ELSE /\ task_id' = r.value
                  /\ IF InRange(0, max_retries)
                     THEN /\ pc' = "query"
                          /\ UNCHANGED <<delete_calls, bucket, response, recognition>>
                     ELSE /\ recognize_audio_except(file_url, TimedOut.exc, removed)
                          /\ recognition' = TimedOut
    /\ UNCHANGED <<filename, max_retries, file_url, result, query_calls,
                   fetch_calls, fetched, upload, exceptAsr>>

\* the spec's reading of a snapshot: neither SUCCEEDED nor FAILED
NonTerminal(snapshot) ==
    ~(/\ snapshot.has_output
      /\ snapshot.has_task_status
      /\ snapshot.task_status \in {"SUCCEEDED", "FAILED"})

\* variant: a failed query is followed by the sleep and the next query
QueryTaskRetrying ==
    /\ pc = "query"
    /\ query_calls' = Append(query_calls, task_id)
    /\ \E removed \in BOOLEAN :
         \/ \E reply \in QueryReplies :
              /\ calls' = Count("query")
              /\ pc' = "sleep"
              /\ UNCHANGED <<delete_calls, bucket, response, recognition, result>>
         \/ \E snapshot \in Snapshots :
              LET d == PollDecision(snapshot)
              IN  /\ result' = snapshot
                  /\ calls' = [calls EXCEPT
                         !.query = @ + 1,
                         !.nonterminal = IF NonTerminal(snapshot) THEN @ + 1 ELSE @]
                  /\ IF d.kind = "raise"
                     THEN /\ recognize_audio_except(file_url, d.exc, removed)
                          /\ recognition' = Raised(d.exc)
                     ELSE /\ pc' = d.kind
                          /\ UNCHANGED <<delete_calls, bucket, response, recognition>>
    /\ UNCHANGED <<filename, max_retries, file_url, task_id, attempt,
                   fetch_calls, fetched, upload, exceptAsr>>

\* result = await self.query_task(task_id, api_key) and the branch it selects
QueryTask ==
    /\ pc = "query"
    /\ query_calls' = Append(query_calls, task_id)
    /\ \E removed \in BOOLEAN :
         \/ \E reply \in QueryReplies :
              /\ calls' = Count("query")
              /\ recognize_audio_except(file_url, query_task_error(reply), removed)
              /\ recognition' = Raised(query_task_error(reply))
              /\ UNCHANGED result
         \/ \E snapshot \in Snapshots :
              LET d == PollDecision(snapshot)
              IN  /\ result' = snapshot
                  /\ calls' = [calls EXCEPT
                         !.query = @ + 1,
                         !.nonterminal = IF NonTerminal(snapshot) THEN @ + 1 ELSE @]
                  /\ IF d.kind = "raise"
                     THEN /\ recognize_audio_except(file_url, d.exc, removed)
                          /\ recognition' = Raised(d.exc)
                     ELSE /\ pc' = d.kind
                          /\ UNCHANGED <<delete_calls, bucket, response, recognition>>
    /\ UNCHANGED <<filename, max_retries, file_url, task_id, attempt,
                   fetch_calls, fetched, upload, exceptAsr>>

\* variant: no sleep is taken after the last query
SleepUnlessLast ==
    /\ pc = "sleep"
    /\ calls' = IF InRange(attempt + 1, max_retries) THEN Count("sleep") ELSE calls
    /\ attempt' = attempt + 1
    /\ IF InRange(attempt + 1, max_retries)
       THEN /\ pc' = "query"
            /\ UNCHANGED <<delete_calls, bucket, response, recognition>>
       ELSE /\ \E removed \in BOOLEAN :
                 recognize_audio_except(file_url, TimedOut.exc, removed)
            /\ recognition' = TimedOut
    /\ UNCHANGED <<filename, max_retries, file_url, task_id, result,
                   query_calls, fetch_calls, fetched, upload, exceptAsr>>

\* await asyncio.sleep(interval), then the next iteration or the timeout
Sleep ==
    /\ pc = "sleep"
    /\ calls' = Count("sleep")
    /\ attempt' = attempt + 1
    /\ IF InRange(attempt + 1, max_retries)
       THEN /\ pc' = "query"
            /\ UNCHANGED <<delete_calls, bucket, response, recognition>>
       ELSE /\ \E removed \in BOOLEAN :
                 recognize_audio_except(file_url, TimedOut.exc, removed)
            /\ recognition' = TimedOut
    /\ UNCHANGED <<filename, max_retries, file_url, task_id, result,
                   query_calls, fetch_calls, fetched, upload, exceptAsr>>

\* return await self.get_transcription_text(transcription_url), then step 3
FetchTranscript ==
    /\ pc = "fetch"
    /\ calls' = Count("fetch")
    /\ fetch_calls' = Append(fetch_calls, PollDecision(result).url)
    /\ \E removed \in BOOLEAN :
         \/ \E reply \in FetchReplies :
              /\ recognize_audio_except(file_url, get_transcription_text_error(reply), removed)
              /\ recognition' = Raised(get_transcription_text_error(reply))
              /\ UNCHANGED fetched
         \/ \E doc \in Documents :
              LET r == get_transcription_text(doc)
              IN  /\ fetched' = doc
                  /\ recognition' = r
                  /\ IF r.raised
                     THEN recognize_audio_except(file_url, r.exc, removed)
                     ELSE recognize_audio_return(r.value, removed)
    /\ UNCHANGED <<filename, max_retries, file_url, task_id, attempt, result,
                   query_calls, upload, exceptAsr>>

\* The host cancels the task: CancelledError is raised at the await the
\* coroutine is suspended in.  It is a BaseException, so neither the
\* "except Exception" of the service methods nor that of recognize_audio
\* catches it.
SuspensionPoints == {"read", "submit", "query", "sleep", "fetch"}

Cancel ==
    /\ pc \in SuspensionPoints
    /\ pc' = "cancelled"
    /\ UNCHANGED <<filename, max_retries, file_url, bucket, delete_calls, task_id,
                   attempt, result, calls, query_calls, fetch_calls,
              fetched, response,
                   upload, recognition, exceptAsr>>

-----------------------------------------------------------------------------
(* AIService.extract_text (app/services/ai_service.py) *)

\* The value under a key of the response.  type is the Python type of the
\* value; a dict may hold a "text" key, a str has characters, a list items.
Value(type, has_text, text, str, items) ==
    [type |-> type, has_text |-> has_text, text |-> text, str |-> str, items |-> items]

DictValue(has_text, text) == Value("dict", has_text, text, "", <<>>)
StrValue(str) == Value("str", FALSE, "", str, <<>>)
ListValue(items) == Value("list", FALSE, "", "", items)
IntValue == Value("int", FALSE, "", "", <<>>)
NullValue == Value("NoneType", FALSE, "", "", <<>>)

Texts == {"", "plan", "{}"}

OutputValues ==
    {DictValue(FALSE, "")}
    \cup {DictValue(TRUE, t) : t \in Texts}
    \cup {StrValue(t) : t \in {"", "plain", "no text"}}
    \cup {ListValue(l) : l \in {<<>>, <<"text">>, <<"a", "b">>}}
    \cup {IntValue, NullValue}

\* The response: "output" and "text" may each be missing
Envelope(has_output, output, has_text, text) ==
    [has_output |-> has_output, output |-> output, has_text |-> has_text, text |-> text]

NoEnvelope == Envelope(FALSE, NullValue, FALSE, "")

Envelopes ==
    {Envelope(FALSE, NullValue, FALSE, "")}
    \cup {Envelope(FALSE, NullValue, TRUE, t) : t \in Texts \cup {"flat"}}
    \cup {Envelope(TRUE, o, FALSE, "") : o \in OutputValues}
    \cup {Envelope(TRUE, o, TRUE, t) : o \in OutputValues, t \in Texts \cup {"flat"}}

TypeError(msg) == Raised(Exc("TypeError", msg))

\* "text" in v
TextIn(v) ==
    IF v.type = "dict" THEN Returned(v.has_text)
    ELSE IF v.type = "str" THEN Returned(Contains(v.str, "text"))
    ELSE IF v.type = "list" THEN Returned(\E i \in 1..Len(v.items) : v.items[i] = "text")
    ELSE TypeError("argument of type '" \o v.type \o "' is not iterable")

\* v["text"], evaluated only after "text" in v held
TextItem(v) ==
    IF v.type = "dict" THEN Returned(v.text)
    ELSE IF v.type = "str" THEN TypeError("string indices must be integers")
    ELSE TypeError("list indices must be integers or slices, not str")

extract_text(r) ==
    LET nested == IF r.has_output THEN TextIn(r.output) ELSE Returned(FALSE)
    IN  IF nested.raised THEN nested
        ELSE IF nested.value THEN TextItem(r.output)
        ELSE IF r.has_text THEN Returned(r.text)
        ELSE Returned("")

\* one call of extract_text on the response held in envelope
ExtractText ==
    /\ extracted = Pending
    /\ extracted' = extract_text(envelope)
    /\ UNCHANGED <<envelope, asrVars, planVars, ossVars, authVars, cacheVars>>

\* the response of another completion call arrives
NextEnvelope ==
    /\ extracted # Pending
    /\ envelope' \in Envelopes
    /\ extracted' = Pending
    /\ UNCHANGED <<asrVars, planVars, ossVars, authVars, cacheVars>>

-----------------------------------------------------------------------------
(* JSON text and the documents it stands for (json.loads, json.dumps) *)

\* str.strip(): leading and trailing whitespace removed
RECURSIVE lstrip(_)
lstrip(s) == IF s # "" /\ Take(s, 1) \in {" ", "\n"} THEN lstrip(Drop(s, 1)) ELSE s

RECURSIVE rstrip(_)
rstrip(s) ==
    IF s # "" /\ Drop(s, Len(s) - 1) \in {" ", "\n"}
    THEN rstrip(Take(s, Len(s) - 1)) ELSE s

strip(s) == rstrip(lstrip(s))

\* A JSON value under a key of the document.  type is the Python type
\* json.loads gives it; "absent" stands for a key the document lacks.
Json(type, str, num, items) == [type |-> type, str |-> str, num |-> num, items |-> items]

Absent == Json("absent", "", 0, <<>>)
JStr(s) == Json("str", s, 0, <<>>)
JNum(n) == Json("int", "", n, <<>>)
JNull == Json("NoneType", "", 0, <<>>)
JList(items) == Json("list", "", 0, items)

\* the keys generate_and_create_plan reads, in the order the text lists them
FieldNames == <<"title", "destination", "days", "budget", "travelers",
                "preferences", "start_date", "summary">>

Fields == {FieldNames[i] : i \in 1..Len(FieldNames)}

\* What json.loads returns: a dict with some of the keys, or another JSON
\* value (list, number, string, null) held in value.
Dict(fields) == [type |-> "dict", fields |-> fields, value |-> Absent]
TopLevel(v) == [type |-> v.type, fields |-> [k \in Fields |-> Absent], value |-> v]

\* ai_data before line 120 has run
NoAiData == [type |-> "unset", fields |-> [k \in Fields |-> Absent], value |-> Absent]

EmptyDict == Dict([k \in Fields |-> Absent])

\* {"title": "  ", "days": 5}
ScenarioDict ==
    Dict([k \in Fields |-> IF k = "title" THEN JStr("  ")
                           ELSE IF k = "days" THEN JNum(5) ELSE Absent])

FullDict ==
    Dict([k \in Fields |->
            IF k = "title" THEN JStr("Kyoto in spring")
            ELSE IF k = "destination" THEN JStr("Kyoto")
            ELSE IF k = "days" THEN JNum(5)
            ELSE IF k = "budget" THEN JNum(3000)
            ELSE IF k = "travelers" THEN JNum(2)
            ELSE IF k = "preferences" THEN JList(<<"food">>)
            ELSE IF k = "start_date" THEN JStr("2025-03-01")
            ELSE JStr("temples")])

\* the values a key is given by the generated text
FieldValues ==
    {Absent, JStr(""), JStr("  "), JStr(" Nara "), JNum(7), JNull,
     JList(<<>>), JList(<<"hiking", "food">>)}

PlanDocuments ==
    {ScenarioDict}
    \cup {Dict([base.fields EXCEPT ![k] = v]) :
              base \in {EmptyDict, FullDict}, k \in Fields, v \in FieldValues}
    \cup {TopLevel(v) : v \in {JList(<<>>), JNum(7), JStr("plan"), JNull}}

Quoted(s) == "\"" \o s \o "\""

\* json.dumps of a value and of a document
dumps_value(v) ==
    IF v.type = "str" THEN Quoted(v.str)
    ELSE IF v.type = "int" THEN ToString(v.num)
    ELSE IF v.type = "list"
         THEN "[" \o join(", ", [i \in 1..Len(v.items) |-> Quoted(v.items[i])]) \o "]"
    ELSE "null"

dumps(doc) ==
    LET keys == SelectSeq(FieldNames, LAMBDA k : doc.fields[k].type # "absent")
    IN  IF doc.type = "dict"
        THEN "{" \o join(", ", [i \in 1..Len(keys) |->
                                   Quoted(keys[i]) \o ": " \o dumps_value(doc.fields[keys[i]])])
                 \o "}"
        ELSE dumps_value(doc.value)

\* the texts a completion carries: JSON, and texts that are not JSON
PlanTexts == {dumps(d) : d \in PlanDocuments} \cup {"", "plan", "{"}

\* str() of the json.JSONDecodeError raised for a text that is not JSON
JSONDecodeMessage(text) ==
    IF StartsWith(text, "{")
    THEN "Expecting property name enclosed in double quotes: line 1 column 2 (char 1)"
    ELSE "Expecting value: line 1 column 1 (char 0)"

\* the document each JSON text stands for
Loads == [t \in {dumps(d) : d \in PlanDocuments} |->
             CHOOSE d \in PlanDocuments : dumps(d) = t]

\* json.loads(text)
json_loads(text) ==
    IF text \in DOMAIN Loads
    THEN Returned(Loads[text])
    ELSE Raised(Exc("JSONDecodeError", JSONDecodeMessage(text)))

-----------------------------------------------------------------------------
(* datetime.now() + timedelta(days=3) and strftime("%Y-%m-%d") *)

Date(year, month, day) == [year |-> year, month |-> month, day |-> day]

DaysInMonth(year, month) ==
    IF month = 2
    THEN (IF (year % 4 = 0 /\ year % 100 # 0) \/ year % 400 = 0 THEN 29 ELSE 28)
    ELSE IF month \in {4, 6, 9, 11} THEN 30
    ELSE 31

NextDay(date) ==
    IF date.day < DaysInMonth(date.year, date.month)
    THEN Date(date.year, date.month, date.day + 1)
    ELSE IF date.month < 12 THEN Date(date.year, date.month + 1, 1)
    ELSE Date(date.year + 1, 1, 1)

RECURSIVE AddDays(_, _)
AddDays(date, days) == IF days = 0 THEN date ELSE AddDays(NextDay(date), days - 1)

strftime(date) ==
    LET pad(n) == IF n < 10 THEN "0" \o ToString(n) ELSE ToString(n)
    IN  ToString(date.year) \o "-" \o pad(date.month) \o "-" \o pad(date.day)

\* the days on which a request arrives
Todays == {Date(2025, 1, 1), Date(2024, 12, 30), Date(2024, 2, 27), Date(2025, 2, 27)}

NoDate == Date(0, 0, 0)

-----------------------------------------------------------------------------
(* AIService.invoke_completion (app/services/ai_service.py) *)

CompletionTimeoutMessage == "AI generation timed out (over 5 minutes)"
GenericRemoteMessage == "bailian call failed"
TransportPrefix == "bailian request error: "

\* The body of an HTTP reply.  shape is "dict" or "list" for a body that is
\* JSON of that kind and "invalid" for a body that is not JSON; a dict may
\* hold the keys "message" and "error".
Body(shape, has_message, message, has_error, error) ==
    [shape |-> shape, has_message |-> has_message, message |-> message,
     has_error |-> has_error, error |-> error]

EmptyBody == Body("dict", FALSE, "", FALSE, "")

ErrorBodies ==
    { EmptyBody,
      Body("dict", TRUE, "quota exceeded", FALSE, ""),
      Body("dict", TRUE, "", TRUE, "bad request"),
      Body("dict", FALSE, "", TRUE, "forbidden"),
      Body("list", FALSE, "", FALSE, ""),
      Body("invalid", FALSE, "", FALSE, "") }

\* the responses a completion returns: the text nested under "output", at
\* the top level, or nowhere, and an "output" that is null
PlanEnvelopes ==
    {Envelope(TRUE, DictValue(TRUE, t), FALSE, "") : t \in PlanTexts}
    \cup {Envelope(FALSE, NullValue, TRUE, t) : t \in {"plan", dumps(ScenarioDict)}}
    \cup {NoEnvelope, Envelope(TRUE, NullValue, FALSE, "")}

\* What the remote end does with the POST:
\*   ok          2xx; the body is the envelope, or is not JSON
\*   timeout     httpx.TimeoutException
\*   http_error  raise_for_status raised HTTPStatusError
\*   fault       any other exception; message is its str()
CompletionReply(kind, data, content_type, body, message) ==
    [kind |-> kind, envelope |-> data, content_type |-> content_type,
     body |-> body, message |-> message]

CompletionReplies ==
    {CompletionReply("ok", e, "application/json; charset=utf-8", EmptyBody, "") :
         e \in PlanEnvelopes}
    \cup {CompletionReply("ok", NoEnvelope, "text/html",
                          Body("invalid", FALSE, "", FALSE, ""), "")}
    \cup {CompletionReply("timeout", NoEnvelope, "", EmptyBody, "")}
    \cup {CompletionReply("http_error", NoEnvelope, ct, b, "") :
              ct \in {"application/json; charset=utf-8", "text/html"}, b \in ErrorBodies}
    \cup {CompletionReply("fault", NoEnvelope, "", EmptyBody, "ConnectError")}

\* no POST made yet
NoReply == CompletionReply("none", NoEnvelope, "", EmptyBody, "")

\* key = api_key or self.settings.bailian_api_key
CompletionKey(request_key, settings_key) ==
    IF Truthy(request_key) THEN request_key ELSE settings_key

\* the remote end serves no completion to a request without a key
RepliesFor(key) ==
    IF key = "" THEN {r \in CompletionReplies : r.kind # "ok"} ELSE CompletionReplies

\* error_data of the HTTPStatusError handler
error_data(reply) ==
    IF StartsWith(reply.content_type, "application/json")
    THEN IF reply.body.shape = "invalid"
         THEN Raised(Exc("JSONDecodeError", JSONDecodeMessage("")))
         ELSE Returned(reply.body)
    ELSE Returned(EmptyBody)

\* error_data.get("message") or error_data.get("error") or the fallback
error_message(data) ==
    IF data.has_message /\ data.message # "" THEN data.message
    ELSE IF data.has_error /\ data.error # "" THEN data.error
    ELSE GenericRemoteMessage

invoke_completion(reply) ==
    IF reply.kind = "ok"
    THEN IF reply.body.shape = "invalid"
         THEN Raised(Exc("Exception", TransportPrefix \o JSONDecodeMessage("")))
         ELSE Returned(reply.envelope)
    ELSE IF reply.kind = "timeout"
    THEN Raised(Exc("Exception", CompletionTimeoutMessage))
    ELSE IF reply.kind = "http_error"
    THEN IF error_data(reply).raised THEN error_data(reply)
         ELSE IF error_data(reply).value.shape # "dict"
         THEN Raised(Exc("AttributeError", "'list' object has no attribute 'get'"))
         ELSE Raised(Exc("Exception", error_message(error_data(reply).value)))
    ELSE Raised(Exc("Exception", TransportPrefix \o reply.message))

-----------------------------------------------------------------------------
(* PlanService.create_plan (app/services/plan_service.py) *)

CreatePlanFailedMessage == "create plan failed"
CreatePlanPrefix == "create plan failed: "

\* What the insert gives: rows (possibly none), or an exception
InsertReplies ==
    { [kind |-> "ok", data |-> <<"plan-1">>, message |-> ""],
      [kind |-> "ok", data |-> <<>>, message |-> ""],
      [kind |-> "fault", data |-> <<>>, message |-> "permission denied"] }

create_plan(reply) ==
    IF reply.kind = "ok"
    THEN IF Len(reply.data) > 0
         THEN Returned(reply.data[1])
         ELSE Raised(Exc("Exception", CreatePlanPrefix \o CreatePlanFailedMessage))
    ELSE Raised(Exc("Exception", CreatePlanPrefix \o reply.message))

-----------------------------------------------------------------------------
(* generate_and_create_plan (app/routers/ai.py) *)

MalformedPrefix == "AI response is not valid JSON: "
DefaultTitle == "Untitled Plan"
DefaultDestination == "Unknown Destination"

AttributeError(type, attribute) ==
    Raised(Exc("AttributeError",
               "'" \o type \o "' object has no attribute '" \o attribute \o "'"))

\* lines 119-122: json.loads, its error wrapped in the malformed-response error
parse_text(text) ==
    IF json_loads(text).raised
    THEN Raised(Exc("Exception", MalformedPrefix \o json_loads(text).exc.msg))
    ELSE json_loads(text)

\* ai_data.get(key, "").strip() for a dict ai_data
stripped(doc, key) ==
    IF doc.fields[key].type = "absent" THEN Returned("")
    ELSE IF doc.fields[key].type = "str" THEN Returned(strip(doc.fields[key].str))
    ELSE AttributeError(doc.fields[key].type, "strip")

\* x or default, for strings
OrNothing(s, default) == s

Or(s, default) == IF s # "" THEN s ELSE default

\* ai_data.get(key, default)
get(doc, key, default) ==
    IF doc.fields[key].type = "absent" THEN default ELSE doc.fields[key]

\* the row before lines 126-144 have run
NoPlanData ==
    [title |-> Absent, destination |-> Absent, days |-> Absent, budget |-> Absent,
     travelers |-> Absent, preferences |-> Absent, start_date |-> Absent,
     summary |-> Absent, ai_response |-> NoAiData]

\* lines 126-144; now is datetime.now()
build_plan_data(doc, now) ==
    IF doc.type # "dict" THEN AttributeError(doc.type, "get")
    ELSE IF stripped(doc, "start_date").raised THEN stripped(doc, "start_date")
    ELSE IF stripped(doc, "title").raised THEN stripped(doc, "title")
    ELSE IF stripped(doc, "destination").raised THEN stripped(doc, "destination")
    ELSE IF stripped(doc, "summary").raised THEN stripped(doc, "summary")
    ELSE Returned(
        [title |-> JStr(Or(stripped(doc, "title").value, DefaultTitle)),
         destination |-> JStr(Or(stripped(doc, "destination").value, DefaultDestination)),
         days |-> get(doc, "days", JNum(1)),
         budget |-> get(doc, "budget", JNum(0)),
         travelers |-> get(doc, "travelers", JNum(1)),
         preferences |-> IF doc.fields["preferences"].type = "list"
                         THEN doc.fields["preferences"] ELSE JList(<<>>),
         start_date |-> JStr(Or(stripped(doc, "start_date").value,
                                strftime(AddDays(now, 3)))),
         summary |-> JStr(Or(stripped(doc, "summary").value, "")),
         ai_response |-> doc])

\* the GeneratePlanResponse
GeneratePlanResponse(plan_id, has_error, message) ==
    [answered |-> TRUE, plan_id |-> plan_id, has_error |-> has_error, message |-> message]

NoGenResponse == [answered |-> FALSE, plan_id |-> None, has_error |-> FALSE, message |-> ""]

\* the try of lines 108-158 and its except of lines 160-166: where the
\* request goes after a step that ended with outcome
ProceedRegardless(outcome, next) == next

Proceed(outcome, next) == IF outcome.raised THEN "done" ELSE next

\* lines 160-166
generate_plan_except(outcome, steps) ==
    /\ gen_response' = IF outcome.raised
                       THEN GeneratePlanResponse(None, TRUE, outcome.exc.msg)
                       ELSE gen_response
    /\ gen_calls' = gen_calls \o steps \o (IF outcome.raised THEN <<"respond">> ELSE <<>>)

\* lines 110-115
InvokeCompletion ==
    /\ gen_pc = "invoke"
    /\ \E reply \in RepliesFor(CompletionKey(api_key, bailian_api_key)) :
          LET ai_response == invoke_completion(reply)
          IN  /\ completion' = reply
              /\ invoked' = ai_response
              /\ envelope' = IF ai_response.raised THEN envelope ELSE ai_response.value
              /\ gen_pc' = Proceed(ai_response, "parse")
              /\ generate_plan_except(ai_response, <<"invoke">>)
    /\ UNCHANGED <<extracted, api_key, bailian_api_key, ai_data, today, plan_data,
                   created, exceptPlan>>

\* lines 117-146
ParseAndBuild ==
    /\ gen_pc = "parse"
    /\ \E now \in Todays :
          LET text_content == extract_text(envelope)
              parsed == IF text_content.raised THEN text_content
                        ELSE parse_text(text_content.value)
              built == IF parsed.raised THEN parsed
                       ELSE build_plan_data(parsed.value, now)
          IN  /\ today' = now
              /\ extracted' = text_content
              /\ ai_data' = IF parsed.raised THEN ai_data ELSE parsed.value
              /\ plan_data' = IF built.raised THEN plan_data ELSE built.value
              /\ gen_pc' = Proceed(built, "persist")
              /\ generate_plan_except(built,
                     IF text_content.raised THEN <<"extract">>
                     ELSE IF parsed.raised THEN <<"extract", "parse">>
                     ELSE <<"extract", "parse", "build">>)
    /\ UNCHANGED <<envelope, api_key, bailian_api_key, completion, invoked, created,
                   exceptPlan>>

\* lines 148-158
CreatePlan ==
    /\ gen_pc = "persist"
    /\ \E reply \in InsertReplies :
          LET inserted == create_plan(reply)
          IN  /\ created' = inserted
              /\ gen_pc' = "done"
              /\ gen_response' = IF inserted.raised
                                 THEN GeneratePlanResponse(None, TRUE, inserted.exc.msg)
                                 ELSE GeneratePlanResponse(inserted.value, FALSE, "")
              /\ gen_calls' = gen_calls \o <<"persist", "respond">>
    /\ UNCHANGED <<aiVars, api_key, bailian_api_key, completion, invoked, ai_data,
                   today, plan_data, exceptPlan>>

\* no plan request in progress
IdlePlan ==
    /\ gen_pc = "idle"
    /\ api_key = None
    /\ bailian_api_key = ""
    /\ completion = NoReply
    /\ invoked = Pending
    /\ ai_data = NoAiData
    /\ today = NoDate
    /\ plan_data = NoPlanData
    /\ created = Pending
    /\ gen_calls = <<>>
    /\ gen_response = NoGenResponse

-----------------------------------------------------------------------------
(* The route /oss/delete (app/routers/oss.py) *)

\* What bucket.delete_object does: it completes, or raises
Removals ==
    { [kind |-> "ok", type |-> "", message |-> ""],
      [kind |-> "fault", type |-> "NoSuchBucket", message |-> "The specified bucket does not exist."],
      [kind |-> "fault", type |-> "RequestError", message |-> "connection refused"] }

NoRemoval == [kind |-> "none", type |-> "", message |-> ""]

\* variant: delete_file without its try
delete_file_unguarded(url, outcome) ==
    IF outcome.kind = "ok" THEN Returned(TRUE)
    ELSE Raised(Exc(outcome.type, outcome.message))

\* OSSService.delete_file: True when delete_object completed, False when the
\* except branch ran
delete_file(url, outcome) ==
    IF outcome.kind = "ok" THEN Returned(TRUE) ELSE Returned(FALSE)

\* the addresses a DeleteRequest carries: objects of the configured bucket,
\* an object of another bucket, and texts that are no address
DeleteAddresses ==
    { PublicUrl(ObjectName("20250101_093000", "0a1b2c3d", "wav")),
      PublicUrl("audio/20240101_000000_12345678.wav"),
      "https://other.oss-cn.aliyuncs.com/audio/20240101_000000_12345678.wav",
      "" }

\* the answers of the route: DeleteResponse, or HTTP 500
NoOssResponse == [status_code |-> 0, success |-> FALSE, detail |-> ""]
DeleteResponse(success) == [status_code |-> 200, success |-> success, detail |-> ""]

DeleteRouteFailedPrefix == "delete file failed: "

OssError(e) ==
    [status_code |-> 500, success |-> FALSE, detail |-> DeleteRouteFailedPrefix \o e.msg]

\* /oss/delete: one call of delete_file
OssDelete ==
    /\ pc = "idle"
    /\ Len(delete_calls) < MaxDeleteCalls
    /\ \E url \in DeleteAddresses, outcome \in Removals :
          LET success == delete_file(url, outcome)
          IN  /\ removal' = outcome
              /\ delete_result' = success
              /\ delete_calls' = Append(delete_calls, DeleteCall(url, outcome.kind = "ok"))
              /\ bucket' = BucketAfterDelete(bucket, url, outcome.kind = "ok")
              /\ oss_response' = IF success.raised
                                 THEN OssError(success.exc)
                                 ELSE DeleteResponse(success.value)
    /\ UNCHANGED <<sagaVars, exceptOss>>

\* no request to the route yet
IdleOss ==
    /\ delete_result = Pending
    /\ removal = NoRemoval
    /\ oss_response = NoOssResponse

-----------------------------------------------------------------------------
(* The Supabase client (app/database.py) and AuthService
   (app/services/auth_service.py) *)

\* _supabase_client before the first call of get_supabase_client
NoClient == "None"

\* settings.supabase_url of the Settings a caller passes
SupabaseUrls == {"https://a.supabase.co", "https://b.supabase.co"}

\* create_client(settings.supabase_url, settings.supabase_key): a client
\* bound to the project of the settings
create_client(supabase_url) == "client of " \o supabase_url

\* variant: a client is made again when the settings name another project
get_supabase_client_per_settings(global, supabase_url) ==
    IF global = NoClient \/ global # create_client(supabase_url)
    THEN create_client(supabase_url) ELSE global

\* get_supabase_client: the global is filled once and handed out ever after
get_supabase_client(global, supabase_url) ==
    IF global = NoClient THEN create_client(supabase_url) ELSE global

\* str.lower() for ASCII letters
RECURSIVE lower(_)
lower(s) ==
    LET upper_case == "ABCDEFGHIJKLMNOPQRSTUVWXYZ"
        lower_case == "abcdefghijklmnopqrstuvwxyz"
        at(c) == {i \in 1..Len(upper_case) : SubSeq(upper_case, i, i) = c}
        lower_char(c) == IF at(c) = {} THEN c
                         ELSE SubSeq(lower_case, CHOOSE i \in at(c) : TRUE,
                                     CHOOSE i \in at(c) : TRUE)
    IN  IF s = "" THEN "" ELSE lower_char(Take(s, 1)) \o lower(Drop(s, 1))

Users == {"u1", "u2"}

AccessToken(user_id) == "tok-" \o user_id

\* What supabase.auth gives for sign_up, sign_in_with_password and get_user:
\*   ok          a response with user and session
\*   incomplete  a response that lacks the user or the session
\*   rejected    set_session raised (get_user only)
\*   raises      the call raised; message is str(e)
AuthReply(kind, user_id, message) == [kind |-> kind, user_id |-> user_id, message |-> message]

AuthFaultMessages ==
    { "User already registered",
      "Unable to validate email address: invalid format",
      "Password should be at least 6 characters",
      "Invalid login credentials" }

AuthReplies ==
    {AuthReply("ok", u, "") : u \in Users}
    \cup {AuthReply("incomplete", None, "")}
    \cup {AuthReply("raises", None, m) : m \in AuthFaultMessages}

\* What the user_profiles table gives: a row (data) with a username, no row,
\* or an exception
ProfileReply(kind, has_data, username, message) ==
    [kind |-> kind, has_data |-> has_data, username |-> username, message |-> message]

NoProfileReply == ProfileReply("none", FALSE, "", "")

ProfileFault == ProfileReply("raises", FALSE, "", "multiple (or no) rows returned")

ProfileReplies ==
    { ProfileReply("ok", TRUE, "alice", ""),
      ProfileReply("ok", TRUE, "", ""),
      ProfileReply("ok", FALSE, "", ""),
      ProfileFault }

\* the result of an operation of AuthService
AuthOk(user_id, username, access_token) ==
    [raised |-> FALSE, user_id |-> user_id, username |-> username,
     access_token |-> access_token, exc |-> Exc("", "")]

AuthFailed(msg) ==
    [raised |-> TRUE, user_id |-> None, username |-> "", access_token |-> None,
     exc |-> Exc("Exception", msg)]

SignUpIncompleteMessage == "sign up failed, no user or session returned"
EmailTakenMessage == "this address is registered, use another or log in"
EmailInvalidMessage == "the address is malformed"
PasswordRejectedMessage == "the secret does not meet the requirements"
SignUpFailedPrefix == "sign up failed: "
SignInIncompleteMessage == "log in failed, wrong address or secret"
SignInFailedPrefix == "log in failed: "
UserNotFoundMessage == "user not found"
GetUserFailedPrefix == "get user failed: "

\* lines 73-83: the message sign_up raises for the exception with text msg
sign_up_error(msg) ==
    IF Contains(lower(msg), "already registered") \/ Contains(lower(msg), "already exists")
    THEN EmailTakenMessage
    ELSE IF Contains(lower(msg), "email") /\ Contains(lower(msg), "invalid")
    THEN EmailInvalidMessage
    ELSE IF Contains(lower(msg), "password") THEN PasswordRejectedMessage
    ELSE SignUpFailedPrefix \o msg

\* variant: a failed profile lookup is raised to the caller
lookup_username_raising(profile) ==
    IF profile.kind = "raises" THEN Raised(Exc("APIError", profile.message))
    ELSE IF profile.has_data /\ profile.username # "" THEN Returned(profile.username)
    ELSE Returned("")

\* lines 107-117 and 176-186: the username sign_in and get_user take from the
\* profile lookup; the bare except and "if not username" give ""
lookup_username(profile) ==
    IF profile.kind = "raises" THEN Returned("")
    ELSE IF profile.has_data /\ profile.username # "" THEN Returned(profile.username)
    ELSE Returned("")

\* lines 48-55: the upsert of sign_up; its exception is printed and dropped
upsert_profile(profile) == Returned(profile.kind = "ok")

sign_up(username, primary, profile) ==
    IF primary.kind = "ok"
    THEN IF upsert_profile(profile).raised
         THEN AuthFailed(sign_up_error(upsert_profile(profile).exc.msg))
         ELSE AuthOk(primary.user_id, username, AccessToken(primary.user_id))
    ELSE IF primary.kind = "incomplete"
    THEN AuthFailed(sign_up_error(SignUpIncompleteMessage))
    ELSE AuthFailed(sign_up_error(primary.message))

sign_in(primary, profile) ==
    IF primary.kind = "ok"
    THEN IF lookup_username(profile).raised
         THEN AuthFailed(SignInFailedPrefix \o lookup_username(profile).exc.msg)
         ELSE AuthOk(primary.user_id, lookup_username(profile).value,
                     AccessToken(primary.user_id))
    ELSE IF primary.kind = "incomplete"
    THEN AuthFailed(SignInFailedPrefix \o SignInIncompleteMessage)
    ELSE AuthFailed(SignInFailedPrefix \o primary.message)

get_user(access_token, primary, profile) ==
    IF primary.kind = "ok"
    THEN IF lookup_username(profile).raised
         THEN AuthFailed(GetUserFailedPrefix \o lookup_username(profile).exc.msg)
         ELSE AuthOk(primary.user_id, lookup_username(profile).value, access_token)
    ELSE IF primary.kind = "incomplete"
    THEN AuthFailed(GetUserFailedPrefix \o UserNotFoundMessage)
    ELSE AuthFailed(GetUserFailedPrefix \o primary.message)

\* AuthService.__init__ and the bookkeeping common to the operations.  The
\* log keeps, for one handled request: the operation, the client its
\* AuthService was given, the session that client carried when it was given,
\* what the two remote calls did, and the result.
Handle(op, primary, profile, outcome, session_after) ==
    /\ Len(auth_log) < MaxAuthRequests
    /\ profile = NoProfileReply <=> primary.kind # "ok"
    /\ client_session' = session_after
    /\ \E supabase_url \in SupabaseUrls :
         /\ supabase_client' = get_supabase_client(supabase_client, supabase_url)
         /\ auth_log' = Append(auth_log,
           [op |-> op,
            supabase_url |-> supabase_url,
            client |-> get_supabase_client(supabase_client, supabase_url),
            session_found |-> IF supabase_client = NoClient THEN None ELSE client_session,
            primary |-> primary, profile |-> profile, result |-> outcome])
    /\ UNCHANGED exceptAuth

\* the session the client holds after sign_up or sign_in_with_password: the
\* one the call returned, when it returned one
SessionAfter(primary) ==
    IF primary.kind = "ok" THEN AccessToken(primary.user_id) ELSE client_session

\* a request to /auth/register
SignUp ==
    \E primary \in AuthReplies, profile \in {ProfileReply("ok", TRUE, "bob", ""), ProfileFault, NoProfileReply} :
        Handle("sign_up", primary, profile, sign_up("bob", primary, profile),
               SessionAfter(primary))

\* a request to /auth/login
SignIn ==
    \E primary \in AuthReplies, profile \in ProfileReplies \cup {NoProfileReply} :
        Handle("sign_in", primary, profile, sign_in(primary, profile),
               SessionAfter(primary))

\* get_current_user: AuthService(settings).get_user(token); set_session puts
\* the token into the client unless it raised
GetUser ==
    \E user_id \in Users, profile \in ProfileReplies \cup {NoProfileReply} :
      \E primary \in {AuthReply("ok", user_id, ""), AuthReply("incomplete", None, ""),
                      AuthReply("rejected", None, "Invalid JWT"),
                      AuthReply("raises", None, "Invalid login credentials")} :
        Handle("get_user", primary, profile,
               get_user(AccessToken(user_id), primary, profile),
               IF primary.kind = "rejected" THEN client_session ELSE AccessToken(user_id))

\* the process has handled no request
InitAuthState ==
    /\ supabase_client = NoClient
    /\ client_session = None
    /\ auth_log = <<>>

-----------------------------------------------------------------------------
(* The in-memory cache (app/utils/cache.py) and the cached method of
   examples/cache_usage.py *)

\* @cached(ttl_seconds=60) of get_plans_by_user_cached
ttl_seconds == 60

\* the name of the wrapped function
func_name == "get_plans_by_user_cached"

\* The service instances a caller holds: each is a CachedPlanService at
\* the address the allocator gave it.  A request that builds its own
\* service calls on an instance of its own; callers that share a service
\* call on the same instance.
Addresses == {"0x7f3a10", "0x7f3a58"}

\* str(self): the default repr of an object without __repr__ or __str__
object_repr(address) ==
    "<examples.cache_usage.CachedPlanService object at " \o address \o ">"

\* The calls of the model: the instance, the user_id and whether user_id
\* and access_token are passed by position or by keyword; the token is the
\* one of the user.
CallArguments ==
    {[address |-> a, user_id |-> "u1", style |-> "positional"] : a \in Addresses}
    \cup {[address |-> "0x7f3a10", user_id |-> "u1", style |-> "keyword"]}

\* str(args): the repr of the tuple of positional arguments, self first
str_args(call) ==
    IF call.style = "positional"
    THEN "(" \o object_repr(call.address) \o ", '" \o call.user_id
             \o "', '" \o AccessToken(call.user_id) \o "')"
    ELSE "(" \o object_repr(call.address) \o ",)"

\* str(sorted(kwargs.items()))
str_kwargs(call) ==
    IF call.style = "positional" THEN "[]"
    ELSE "[('access_token', '" \o AccessToken(call.user_id)
             \o "'), ('user_id', '" \o call.user_id \o "')]"

\* hashlib.md5(...).hexdigest(): the digest stands for the text it was
\* made of; no two texts of the model share a digest
md5_hexdigest(text) == "md5(" \o text \o ")"

\* SimpleCache._make_key: json.dumps of func, str(args) and the sorted
\* kwargs with sorted keys, hashed
make_key(name, call) ==
    md5_hexdigest("{\"args\": \"" \o str_args(call) \o "\", \"func\": \"" \o name
                  \o "\", \"kwargs\": \"" \o str_kwargs(call) \o "\"}")

\* what the wrapped function returns: the rows of the user at the time of
\* the call; a wrapped function may also return None
Results == {"[]", "[plan-1]", None}

\* variant: an entry is still served at the instant it expires
FreshInclusive(now, entry) == now <= entry.expires_at

\* datetime.now() < entry['expires_at']
Fresh(now, entry) == now < entry.expires_at

\* SimpleCache.get: the value and the dict after the call; an entry that
\* is no longer fresh is deleted
cache_get(store, key, now) ==
    IF key \in DOMAIN store
    THEN IF Fresh(now, store[key])
         THEN [value |-> store[key].value, store |-> store]
         ELSE [value |-> None,
               store |-> [k \in DOMAIN store \ {key} |-> store[k]]]
    ELSE [value |-> None, store |-> store]

\* variant: an entry already stored under the key is kept
cache_set_if_absent(store, key, value, ttl, now) ==
    IF key \in DOMAIN store THEN store
    ELSE [k \in DOMAIN store \cup {key} |->
            IF k = key THEN [value |-> value, expires_at |-> now + ttl]
            ELSE store[k]]

\* SimpleCache.set: the dict after self._cache[key] = {...}
cache_set(store, key, value, ttl, now) ==
    [k \in DOMAIN store \cup {key} |->
        IF k = key THEN [value |-> value, expires_at |-> now + ttl]
        ELSE store[k]]

\* the empty dict of SimpleCache.__init__
EmptyCache == [k \in {} |-> [value |-> None, expires_at |-> 0]]

\* what the lookup of a call found under its key
Found(store, key, now) ==
    IF key \notin DOMAIN store THEN "absent"
    ELSE IF Fresh(now, store[key]) THEN "fresh"
    ELSE "expired"

\* wrapper, lines 71-79: make the key, look it up, return the cached value
\* when it is not None, else start the wrapped function.  The call is
\* suspended in "await func(*args, **kwargs)" until WrapperReturn.
WrapperLookup ==
    /\ Len(wrapper_calls) < MaxWrapperCalls
    /\ \E arguments \in CallArguments :
         LET cache_key == make_key(func_name, arguments)
             looked_up == cache_get(cache, cache_key, clock)
             hit == looked_up.value # None
         IN  /\ cache' = looked_up.store
             /\ wrapper_calls' = Append(wrapper_calls,
                   [arguments |-> arguments,
                    cache_key |-> cache_key,
                    found |-> Found(cache, cache_key, clock),
                    hit |-> hit,
                    state |-> IF hit THEN "returned" ELSE "executing",
                    value |-> looked_up.value])
    /\ UNCHANGED <<clock, stores, exceptCache>>

\* wrapper, lines 79-84: the wrapped function returns, the result is
\* stored under the key of the call and returned
WrapperReturn ==
    \E c \in 1..Len(wrapper_calls), value \in Results :
        /\ wrapper_calls[c].state = "executing"
        /\ cache' = cache_set(cache, wrapper_calls[c].cache_key, value, ttl_seconds, clock)
        /\ stores' = Append(stores,
              [call |-> c, cache_key |-> wrapper_calls[c].cache_key, value |-> value,
               expires_at |-> clock + ttl_seconds])
        /\ wrapper_calls' = [wrapper_calls EXCEPT
              ![c].state = "returned", ![c].value = value]
        /\ UNCHANGED <<clock, exceptCache>>

\* wrapper, line 79: the wrapped function raises; nothing is stored
WrapperRaise ==
    \E c \in 1..Len(wrapper_calls) :
        /\ wrapper_calls[c].state = "executing"
        /\ wrapper_calls' = [wrapper_calls EXCEPT
              ![c].state = "raised"]
        /\ UNCHANGED <<cache, clock, stores, exceptCache>>

\* time passes: datetime.now() grows by half a ttl
Tick ==
    /\ clock + (ttl_seconds \div 2) <= MaxClock
    /\ clock' = clock + (ttl_seconds \div 2)
    /\ UNCHANGED <<cache, wrapper_calls, stores, exceptCache>>

\* the process has called no cached function
InitCacheState ==
    /\ cache = EmptyCache
    /\ clock = 0
    /\ wrapper_calls = <<>>
    /\ stores = <<>>

-----------------------------------------------------------------------------
(* Specifications *)

\* no call of extract_text in progress
IdleAi ==
    /\ envelope = NoEnvelope
    /\ extracted = Pending

Init ==
    /\ InitAsr
    /\ IdleAi
    /\ IdlePlan
    /\ IdleOss
    /\ InitAuthState
    /\ InitCacheState

Next ==
    \/ ReadFile
    \/ UploadAudio
    \/ SubmitTask
    \/ QueryTask
    \/ Sleep
    \/ FetchTranscript
    \/ Cancel

\* the recognition request
Spec == Init /\ [][Next]_vars

\* no recognition request in progress
IdleSaga ==
    /\ pc = "idle"
    /\ filename = None
    /\ max_retries = 0
    /\ file_url = None
    /\ task_id = None
    /\ attempt = 0
    /\ result = NoSnapshot
    /\ calls = NoCalls
    /\ query_calls = <<>>
    /\ fetch_calls = <<>>
    /\ fetched = NoDocument
    /\ response = NoResponse
    /\ upload = NotUploaded
    /\ recognition = Pending

IdleAsr ==
    /\ IdleSaga
    /\ bucket = {}
    /\ delete_calls = <<>>

InitExtract ==
    /\ envelope \in Envelopes
    /\ extracted = Pending
    /\ IdleAsr
    /\ IdlePlan
    /\ IdleOss
    /\ InitAuthState
    /\ InitCacheState

InitOss ==
    /\ bucket = OtherObjects
    /\ delete_calls = <<>>
    /\ IdleOss
    /\ IdleSaga
    /\ IdleAi
    /\ IdlePlan
    /\ InitAuthState
    /\ InitCacheState

InitAuth ==
    /\ InitAuthState
    /\ InitCacheState
    /\ IdleAsr
    /\ IdleAi
    /\ IdlePlan
    /\ IdleOss

NextAuth ==
    \/ SignUp
    \/ SignIn
    \/ GetUser

\* requests handled by AuthService
SpecAuth == InitAuth /\ [][NextAuth]_vars

InitCache ==
    /\ InitCacheState
    /\ InitAuthState
    /\ IdleAsr
    /\ IdleAi
    /\ IdlePlan
    /\ IdleOss

NextCache ==
    \/ WrapperLookup
    \/ WrapperReturn
    \/ WrapperRaise
    \/ Tick

\* calls of the cached function
SpecCache == InitCache /\ [][NextCache]_vars

NextOss ==
    \/ OssDelete

\* requests to /oss/delete
SpecOss == InitOss /\ [][NextOss]_vars

NextExtract ==
    \/ ExtractText
    \/ NextEnvelope

\* extract_text applied to the envelopes
SpecExtract == InitExtract /\ [][NextExtract]_vars

-----------------------------------------------------------------------------
(* Properties of the recognition request *)

Finished == pc = "done"

Uploaded == upload.state = "ok"

StatusIs(snapshot, status) ==
    snapshot.has_output /\ snapshot.has_task_status /\ snapshot.task_status = status

\* the snapshot names a non-empty result address
HasResultAddress(snapshot) ==
    /\ snapshot.has_output
    /\ snapshot.has_results
    /\ snapshot.results # <<>>
    /\ snapshot.results[1].has_transcription_url
    /\ snapshot.results[1].transcription_url # ""

\* the answer that carries the outcome of recognize_with_polling unchanged
AnswerFor(outcome) ==
    IF outcome.raised
    THEN [status_code |-> 500, text |-> "", detail |-> outcome.exc.msg]
    ELSE [status_code |-> 200, text |-> outcome.value, detail |-> ""]

\* C1: once the upload returned an address, delete_file has been called
\* exactly once, with that address, when recognize_audio returns, whether
\* recognition gave a transcript or failed; it is never called twice.
DeleteInvokedExactlyOnce ==
    /\ Len(delete_calls) <= 1
    /\ (Finished /\ Uploaded) =>
          /\ Len(delete_calls) = 1
          /\ delete_calls[1].file_url = upload.url

C1Witness ==
    /\ Finished /\ Uploaded
    /\ recognition = Raised(Exc("Exception", "bad audio"))
    /\ Len(delete_calls) = 1
    /\ calls.query = 1

\* C2: the answer of recognize_audio is the outcome of recognition, whatever
\* delete_file returned: the transcript when recognition succeeded, the
\* recognition error when it failed.
DeleteOutcomeNeverSurfaces ==
    (Finished /\ Uploaded) => response = AnswerFor(recognition)

C2Witness ==
    /\ Finished /\ Uploaded
    /\ Len(delete_calls) = 1
    /\ ~delete_calls[1].returned
    /\ ~recognition.raised
    /\ response.status_code = 200
    /\ response.text = "hello\nworld"

\* C3 (as claimed): a request cancelled after the upload returned has called
\* delete_file on the uploaded address.
CleanupRunsOnCancel ==
    (pc = "cancelled" /\ Uploaded) =>
        /\ Len(delete_calls) = 1
        /\ delete_calls[1].file_url = upload.url

\* C4 (as claimed): when recognize_audio returns, the object its upload
\* created is no longer in the bucket.
NoObjectOrphaned ==
    (Finished /\ Uploaded) => upload.object_name \notin bucket

\* C4 (amended): when recognize_audio returns, exactly one removal of the
\* object its upload created has been attempted; the object is gone when
\* that removal completed and is still in the bucket when it failed; no
\* other object was touched.
RemovalAttemptedOnce ==
    (Finished /\ Uploaded) =>
        /\ Len(delete_calls) = 1
        /\ delete_calls[1].object_name = upload.object_name
        /\ delete_calls[1].returned <=> upload.object_name \notin bucket
        /\ OtherObjects \subseteq bucket

C4Witness ==
    /\ Finished /\ Uploaded
    /\ Len(delete_calls) = 1
    /\ ~delete_calls[1].returned
    /\ upload.object_name \in bucket
    /\ recognition = TimedOut

\* C5: when upload_audio fails, recognize_audio answers with the upload
\* error at once: nothing was submitted, queried or fetched, no sleep was
\* taken and delete_file was not called.
UploadFailurePropagates ==
    upload.state = "failed" =>
        /\ Finished
        /\ calls = NoCalls
        /\ task_id = None
        /\ fetch_calls = <<>>
        /\ delete_calls = <<>>
        /\ response = [status_code |-> 500, text |-> "", detail |-> PutObjectFailedMessage]

C5Witness ==
    /\ upload.state = "failed"
    /\ Finished
    /\ response.detail = PutObjectFailedMessage

\* the number of steps a request can still take: two per remaining
\* iteration of the loop, and the steps around the loop
StepsLeft ==
    IF pc \in {"done", "cancelled"} THEN 0
    ELSE IF pc = "fetch" THEN 1
    ELSE 2 * (max_retries - attempt)
         + (IF pc = "sleep" THEN 2
            ELSE IF pc = "query" THEN 3
            ELSE IF pc = "submit" THEN 4
            ELSE IF pc = "upload" THEN 5
            ELSE 6)

\* C6: the polling loop issues at most max_retries queries; after
\* max_retries snapshots that are neither SUCCEEDED nor FAILED it does not
\* query again and ends with the polling timeout; the run always ends,
\* since every step lowers the number of steps left, which is never
\* negative.
PollingTerminates ==
    /\ [](/\ calls.query <= max_retries
          /\ attempt <= max_retries
          /\ StepsLeft >= 0
          /\ (task_id # None /\ calls.nonterminal = max_retries) =>
                /\ pc \in {"sleep", "done", "cancelled"}
                /\ Finished => recognition = TimedOut /\ response = AnswerFor(TimedOut))
    /\ [][StepsLeft' < StepsLeft]_vars

C6Witness ==
    /\ Finished
    /\ max_retries = DefaultMaxRetries
    /\ calls.query = DefaultMaxRetries
    /\ calls.nonterminal = DefaultMaxRetries
    /\ recognition = TimedOut

\* C7: when the k-th snapshot is the first that is FAILED or SUCCEEDED with
\* a result address, exactly k queries are made (k up to max_retries) and
\* none after it, the run does not end with the polling timeout, and for
\* SUCCEEDED the transcript returned is the text get_transcription_text
\* gives for the address of that snapshot.
FirstTerminalSnapshotEndsPolling ==
    (StatusIs(result, "FAILED")
       \/ (StatusIs(result, "SUCCEEDED") /\ HasResultAddress(result))) =>
        /\ calls.query = calls.nonterminal + 1
        /\ calls.query <= max_retries
        /\ pc \in {"fetch", "done", "cancelled"}
        /\ recognition # TimedOut
        /\ (Finished /\ StatusIs(result, "SUCCEEDED")) =>
              /\ fetch_calls = <<result.results[1].transcription_url>>
              /\ ~recognition.raised =>
                    /\ recognition = get_transcription_text(fetched)
                    /\ response = AnswerFor(get_transcription_text(fetched))

C7Witness ==
    /\ Finished
    /\ max_retries = 3
    /\ calls.query = 3
    /\ calls.nonterminal = 2
    /\ StatusIs(result, "SUCCEEDED")
    /\ fetch_calls = <<"https://result/R1">>
    /\ response = [status_code |-> 200, text |-> "hello\nworld", detail |-> ""]

\* C8: a SUCCEEDED snapshot without a non-empty result address ends the run
\* at once with the missing-result error: no query and no sleep follow it
\* and get_transcription_text is not called.
MissingResultIsTerminal ==
    (StatusIs(result, "SUCCEEDED") /\ ~HasResultAddress(result)) =>
        /\ Finished
        /\ recognition = Raised(Exc("Exception", MissingResultMessage))
        /\ response = AnswerFor(recognition)
        /\ calls.query = calls.nonterminal + 1
        /\ calls.sleep = calls.nonterminal
        /\ calls.fetch = 0
        /\ fetch_calls = <<>>

C8Witness ==
    /\ Finished
    /\ StatusIs(result, "SUCCEEDED")
    /\ result.has_results
    /\ result.results = <<ResultItem(TRUE, "", FALSE, "")>>
    /\ calls.query = 2
    /\ response.detail = MissingResultMessage

\* the message a FAILED snapshot supplies, the generic one when it has none
FailureMessageOf(snapshot) ==
    IF /\ snapshot.has_results
       /\ snapshot.results # <<>>
       /\ snapshot.results[1].has_message
    THEN snapshot.results[1].message
    ELSE TaskFailedMessage

\* C9 (as claimed): a FAILED snapshot ends the run at once with the message
\* the snapshot supplies, and with the generic message when results is
\* absent, is an empty list, or its first element has no message.
FailedCarriesRemoteMessage ==
    StatusIs(result, "FAILED") =>
        /\ Finished
        /\ recognition.raised
        /\ recognition.exc.msg = FailureMessageOf(result)
        /\ response.detail = FailureMessageOf(result)

-----------------------------------------------------------------------------
(* Properties of extract_text *)

NestedTextPresent(r) == r.has_output /\ r.output.type = "dict" /\ r.output.has_text

\* C10 (as claimed): extract_text never raises, whatever the shape of the
\* envelope, and returns "" when neither output.text nor text is present.
ExtractTextTotal ==
    extracted # Pending =>
        /\ ~extracted.raised
        /\ (~NestedTextPresent(envelope) /\ ~envelope.has_text) => extracted.value = ""

-----------------------------------------------------------------------------
(* Properties of get_transcription_text *)

\* the segments of a result document, none when it has no "transcripts"
SegmentsOf(doc) == IF doc.has_transcripts THEN doc.transcripts ELSE <<>>

\* the sum of the lengths of the texts of the segments
RECURSIVE TotalLength(_)
TotalLength(segments) ==
    IF segments = <<>> THEN 0
    ELSE Len(segments[1].text) + TotalLength(Tail(segments))

\* C18: get_transcription_text returns the texts of the segments in the
\* order of the document, separated by single newlines (n segments, n-1
\* separators; no segment, the empty string), and fails with the fetch
\* error when the document cannot be retrieved or a segment has no text.
TranscriptJoinsSegments ==
    (Finished /\ calls.fetch = 1) =>
        /\ recognition.raised => StartsWith(recognition.exc.msg, FetchFaultPrefix)
        /\ (\E i \in 1..Len(SegmentsOf(fetched)) : ~SegmentsOf(fetched)[i].has_text)
              => recognition.raised
        /\ ~recognition.raised =>
              /\ SegmentsOf(fetched) = <<>> => recognition.value = ""
              /\ SegmentsOf(fetched) # <<>> =>
                    /\ split(recognition.value, "\n")
                         = [i \in 1..Len(SegmentsOf(fetched)) |-> SegmentsOf(fetched)[i].text]
                    /\ Len(recognition.value)
                         = TotalLength(SegmentsOf(fetched)) + Len(SegmentsOf(fetched)) - 1

C18Witness ==
    /\ Finished
    /\ calls.fetch = 1
    /\ ~recognition.raised
    /\ Len(SegmentsOf(fetched)) = 3
    /\ recognition.value = "world\n\nhello"

-----------------------------------------------------------------------------
(* The plan request *)

InitPlan ==
    /\ gen_pc = "invoke"
    /\ api_key \in {None, "", "sk-request"}
    /\ bailian_api_key \in {"", "sk-settings"}
    /\ completion = NoReply
    /\ invoked = Pending
    /\ ai_data = NoAiData
    /\ today = NoDate
    /\ plan_data = NoPlanData
    /\ created = Pending
    /\ gen_calls = <<>>
    /\ gen_response = NoGenResponse
    /\ IdleAi
    /\ IdleAsr
    /\ IdleOss
    /\ InitAuthState
    /\ InitCacheState

NextPlan ==
    \/ InvokeCompletion
    \/ ParseAndBuild
    \/ CreatePlan

\* the generate-plan request
SpecPlan == InitPlan /\ [][NextPlan]_vars

-----------------------------------------------------------------------------
(* Properties of the plan request *)

DraftBuilt == plan_data # NoPlanData

\* the key is missing, or holds an empty or whitespace-only string
Blank(v) == v.type = "absent" \/ (v.type = "str" /\ strip(v.str) = "")

TextFields == {"title", "destination", "start_date", "summary"}
NumberFields == {"days", "budget", "travelers"}

DocumentedDefault(k) ==
    IF k = "title" THEN JStr(DefaultTitle)
    ELSE IF k = "destination" THEN JStr(DefaultDestination)
    ELSE IF k \in {"days", "travelers"} THEN JNum(1)
    ELSE IF k = "budget" THEN JNum(0)
    ELSE IF k = "preferences" THEN JList(<<>>)
    ELSE IF k = "start_date" THEN JStr(strftime(AddDays(today, 3)))
    ELSE JStr("")

Parsed == ai_data # NoAiData

\* the steps of the request that have run, as a set
StepsRun == {gen_calls[i] : i \in 1..Len(gen_calls)}

\* C12 (as claimed): once the extracted text has been interpreted as a
\* document, a draft holding all eight fields is built and the request goes
\* on to the persistence call, whatever the top-level shape of the document
\* and whatever the values of its fields.
DefaultingNeverFails ==
    Parsed =>
        /\ DraftBuilt
        /\ \A k \in Fields : plan_data[k].type # "absent"
        /\ gen_pc = "persist" \/ "persist" \in StepsRun

\* extract_text returned a text that json.loads rejects
Unparsable ==
    /\ "extract" \in StepsRun
    /\ ~extracted.raised
    /\ json_loads(extracted.value).raised

\* C13 (as claimed): when the extracted text is not a structured document
\* (the empty text of an envelope without text included), the request ends
\* with the malformed-response error, the error contains the raw text, and
\* create_plan is not called.
MalformedCarriesRawText ==
    Unparsable =>
        /\ gen_response.has_error
        /\ StartsWith(gen_response.message, MalformedPrefix)
        /\ Contains(gen_response.message, extracted.value)
        /\ "persist" \notin StepsRun

\* the key invoke_completion puts into the Authorization header
SentKey == CompletionKey(api_key, bailian_api_key)

InvokeEnded == "invoke" \in StepsRun

\* The kind of the error invoke_completion raised.  The source raises plain
\* Exception for all three kinds and tells them apart by the message only.
ErrorKind(e) ==
    IF e.type # "Exception" THEN "unhandled"
    ELSE IF e.msg = CompletionTimeoutMessage THEN "timeout"
    ELSE IF StartsWith(e.msg, TransportPrefix) THEN "transport"
    ELSE "remote"

\* C14 (as claimed): when the request carries no key (none, or an empty one)
\* and the configured key is empty too, invoke_completion returns no envelope
\* and fails with the authentication error, that is, not with the timeout
\* error, the transport error or an unhandled exception.
NoCredentialIsAuthError ==
    (InvokeEnded /\ SentKey = "") =>
        /\ invoked.raised
        /\ ErrorKind(invoked.exc) \notin {"timeout", "transport", "unhandled"}

\* the orders in which the steps of one request may have run so far
AllowedRuns ==
    { <<>>,
      <<"invoke", "respond">>,
      <<"invoke">>,
      <<"invoke", "extract", "respond">>,
      <<"invoke", "extract", "parse", "respond">>,
      <<"invoke", "extract", "parse", "build", "respond">>,
      <<"invoke", "extract", "parse", "build">>,
      <<"invoke", "extract", "parse", "build", "persist", "respond">> }

\* C15: the steps of generate_and_create_plan run in the order invoke,
\* extract, parse, build, persist, each at most once; the step that fails is
\* the last one and its error is the one response of the request; create_plan
\* is called at most once, and only after invoke_completion returned and the
\* text was parsed and the draft built; a plan id is answered only after
\* create_plan returned.
StepsOnceInOrder ==
    /\ gen_calls \in AllowedRuns
    /\ gen_response.answered <=> (gen_calls # <<>> /\ Last(gen_calls) = "respond")
    /\ (InvokeEnded /\ invoked.raised) =>
           /\ gen_calls = <<"invoke", "respond">>
           /\ gen_response = GeneratePlanResponse(None, TRUE, invoked.exc.msg)
    /\ ("extract" \in StepsRun /\ ~DraftBuilt) =>
           /\ gen_response.has_error
           /\ "persist" \notin StepsRun
    /\ "persist" \in StepsRun =>
           /\ InvokeEnded /\ ~invoked.raised
           /\ Parsed /\ DraftBuilt
           /\ gen_response.has_error <=> created.raised
           /\ created.raised => gen_response.message = created.exc.msg
    /\ gen_response.has_error => gen_response.plan_id = None
    /\ (gen_response.answered /\ ~gen_response.has_error) =>
           /\ "persist" \in StepsRun
           /\ gen_response.plan_id = created.value

\* the text was extracted but is not JSON: the request ended there
C15Witness ==
    /\ gen_calls = <<"invoke", "extract", "parse", "respond">>
    /\ gen_response.has_error
    /\ gen_pc = "done"
    /\ created = Pending

\* C16 (as claimed): every failure of the remote call gives exactly one kind
\* of error: the timeout error for a timeout, for a failure status the
\* message the remote end supplied when there is one and the generic message
\* otherwise, and the transport error for any other fault; a timeout is never
\* given as a transport error.
OneErrorKindPerFailure ==
    (InvokeEnded /\ completion.kind \in {"timeout", "http_error", "fault"}) =>
        /\ invoked.raised
        /\ completion.kind = "timeout" =>
               /\ invoked.exc.msg = CompletionTimeoutMessage
               /\ ErrorKind(invoked.exc) = "timeout"
        /\ completion.kind = "http_error" =>
               /\ ErrorKind(invoked.exc) = "remote"
               /\ invoked.exc.msg =
                      IF /\ StartsWith(completion.content_type, "application/json")
                         /\ completion.body.shape = "dict"
                      THEN error_message(completion.body)
                      ELSE GenericRemoteMessage
        /\ completion.kind = "fault" =>
               /\ ErrorKind(invoked.exc) = "transport"
               /\ invoked.exc.msg = TransportPrefix \o completion.message

-----------------------------------------------------------------------------
(* Properties of delete_file *)

\* C17: delete_file never raises: for every address, one of another bucket
\* and the empty text included, it returns False when delete_object raised and
\* True exactly when delete_object completed; the route answers with that
\* value and never with an error.
DeleteNeverRaises ==
    delete_calls # <<>> =>
        /\ ~delete_result.raised
        /\ delete_result.value <=> removal.kind = "ok"
        /\ removal.kind = "fault" => delete_result = Returned(FALSE)
        /\ oss_response = DeleteResponse(delete_result.value)

\* the removal of an object of another bucket failed and False came back
C17Witness ==
    /\ delete_calls # <<>>
    /\ Last(delete_calls).file_url =
           "https://other.oss-cn.aliyuncs.com/audio/20240101_000000_12345678.wav"
    /\ removal.kind = "fault"
    /\ delete_result = Returned(FALSE)
    /\ oss_response = DeleteResponse(FALSE)

-----------------------------------------------------------------------------
(* Properties of the requests AuthService handles *)

Handled == 1..Len(auth_log)

\* C19 (as claimed): requests share no mutable state: every request has a
\* client of its own, so the client a request is given has not been touched
\* by an earlier request and carries no session that another request set.
RequestsShareNoState ==
    \A i, j \in Handled :
        i < j =>
            /\ auth_log[i].client # auth_log[j].client
            /\ auth_log[j].session_found = None

\* the username sign_in and get_user are to give for a profile reply
EnrichedUsername(profile) ==
    IF profile.kind = "ok" /\ profile.has_data THEN profile.username ELSE ""

\* C20: when the primary call of sign_in or get_user succeeded, the result
\* is returned whatever the profile lookup did, with the username of the
\* profile row and "" when the lookup raised or found nothing; when the
\* primary call of sign_up succeeded, the registration is returned with the
\* requested username whatever the upsert did; when the primary call raised
\* or gave no user or session, the operation raises.
EnrichmentNeverAborts ==
    \A i \in Handled :
        /\ auth_log[i].primary.kind = "ok" =>
               /\ ~auth_log[i].result.raised
               /\ auth_log[i].result.user_id = auth_log[i].primary.user_id
               /\ auth_log[i].op \in {"sign_in", "get_user"} =>
                      auth_log[i].result.username = EnrichedUsername(auth_log[i].profile)
               /\ auth_log[i].op = "sign_up" => auth_log[i].result.username = "bob"
        /\ auth_log[i].primary.kind # "ok" =>
               /\ auth_log[i].result.raised
               /\ auth_log[i].result.exc.msg # ""
               /\ auth_log[i].op = "sign_in" =>
                      StartsWith(auth_log[i].result.exc.msg, SignInFailedPrefix)
               /\ auth_log[i].op = "get_user" =>
                      StartsWith(auth_log[i].result.exc.msg, GetUserFailedPrefix)
               /\ auth_log[i].op = "sign_up" =>
                      \/ StartsWith(auth_log[i].result.exc.msg, SignUpFailedPrefix)
                      \/ auth_log[i].result.exc.msg \in
                             {EmailTakenMessage, EmailInvalidMessage, PasswordRejectedMessage}

\* a log in whose profile lookup raised, and a registration whose upsert raised
C20Witness ==
    /\ Len(auth_log) = 2
    /\ auth_log[1].op = "sign_in"
    /\ auth_log[1].profile = ProfileFault
    /\ auth_log[1].result = AuthOk("u1", "", "tok-u1")
    /\ auth_log[2].op = "sign_up"
    /\ auth_log[2].profile = ProfileFault
    /\ auth_log[2].result = AuthOk("u2", "bob", "tok-u2")

-----------------------------------------------------------------------------
(* Properties of the polling loop, continued *)

\* every query so far returned a snapshot that is neither SUCCEEDED nor FAILED
OnlyNonTerminalSeen == calls.query >= 1 /\ calls.query = calls.nonterminal

\* C21: a snapshot whose status is neither SUCCEEDED nor FAILED (PENDING,
\* RUNNING, an unknown string, no status or no output at all) never ends
\* the run by itself: the query that returned it leaves the answer and the
\* outcome untouched and goes to the sleep, the sleep is followed by the
\* next query while attempts remain, and a run that saw only such
\* snapshots ended with the polling timeout after max_retries of them.
NonTerminalSnapshotsSleep ==
    /\ [](/\ pc = "sleep" => NonTerminal(result) /\ recognition = Pending
          /\ (Finished /\ OnlyNonTerminalSeen) =>
                /\ recognition = TimedOut
                /\ calls.nonterminal = max_retries
                /\ calls.sleep = max_retries
                /\ calls.fetch = 0)
    /\ [][/\ (pc = "query" /\ calls.nonterminal' = calls.nonterminal + 1) =>
                /\ pc' = "sleep"
                /\ NonTerminal(result')
                /\ UNCHANGED <<response, recognition, delete_calls, attempt>>
          /\ (pc = "sleep" /\ pc' # "cancelled") =>
                /\ calls.sleep' = calls.sleep + 1
                /\ InRange(attempt + 1, max_retries) => pc' = "query"]_vars

C21Witness ==
    /\ pc = "query"
    /\ calls.sleep = 2
    /\ calls.nonterminal = 2
    /\ result = NoSnapshot
    /\ recognition = Pending

\* C22: submit_task is called exactly once and before any query; every
\* query is made with the task id that submit returned; the step taken
\* after a query follows from the snapshot that query returned;
\* get_transcription_text is called at most once, only after a SUCCEEDED
\* snapshot, and with the result address of that snapshot.
CallsInOrderWithCurrentData ==
    /\ [](/\ calls.submit <= 1
          /\ Len(query_calls) = calls.query
          /\ calls.query >= 1 => calls.submit = 1 /\ task_id # None
          /\ \A i \in 1..Len(query_calls) : query_calls[i] = task_id
          /\ pc \in {"sleep", "fetch"} => pc = PollDecision(result).kind
          /\ Len(fetch_calls) = calls.fetch
          /\ calls.fetch <= 1
          /\ (pc = "fetch" \/ calls.fetch = 1) =>
                /\ StatusIs(result, "SUCCEEDED")
                /\ HasResultAddress(result)
                /\ calls.query >= 1
          /\ calls.fetch = 1 => fetch_calls = <<result.results[1].transcription_url>>)
    /\ [][task_id' # task_id =>
             /\ calls.submit = 0 /\ calls.submit' = 1
             /\ calls.query = 0 /\ calls.query' = 0]_vars

C22Witness ==
    /\ Finished
    /\ calls.submit = 1
    /\ query_calls = <<task_id, task_id>>
    /\ Len(result.results) = 2
    /\ fetch_calls = <<"https://result/R1">>
    /\ ~recognition.raised

\* C27: one sleep is taken per snapshot that is neither SUCCEEDED nor
\* FAILED: a run that ended at its k-th query with a terminal snapshot
\* slept k-1 times, and a run that timed out slept max_retries times, the
\* last of them after its last query.
SleepsMatchNonTerminalSnapshots ==
    /\ calls.sleep <= calls.nonterminal
    /\ calls.nonterminal <= calls.sleep + 1
    /\ calls.sleep < calls.nonterminal <=> pc = "sleep" \/ (pc = "cancelled" /\ attempt < calls.nonterminal)
    /\ (Finished /\ ~NonTerminal(result)) =>
          /\ calls.sleep = calls.query - 1
          /\ calls.nonterminal = calls.query - 1
    /\ (Finished /\ recognition = TimedOut) =>
          /\ calls.sleep = max_retries
          /\ calls.query = max_retries
          /\ calls.nonterminal = max_retries

C27Witness ==
    /\ Finished
    /\ recognition = TimedOut
    /\ max_retries = 3
    /\ calls.sleep = 3
    /\ calls.query = 3

\* a terminal snapshot ended the run at the third query, after two sleeps
C27TerminalWitness ==
    /\ Finished
    /\ StatusIs(result, "FAILED")
    /\ calls.query = 3
    /\ calls.sleep = 2

\* the compensating delete has been called once, on the uploaded address
CleanedUp ==
    /\ Len(delete_calls) = 1
    /\ delete_calls[1].file_url = upload.url

\* the step in which submit_task, query_task or get_transcription_text failed
SubmitFails == pc = "submit" /\ pc' # "cancelled" /\ task_id' = None
QueryFails ==
    /\ pc = "query" /\ pc' # "cancelled"
    /\ result' = result
    /\ calls.nonterminal' = calls.nonterminal
FetchFails == pc = "fetch" /\ pc' # "cancelled" /\ recognition'.raised

\* C28: a failure of submit_task, of any query_task or of
\* get_transcription_text ends recognize_with_polling in that step with
\* that failure: no query, sleep or fetch follows and the call is not
\* repeated; recognize_audio still calls delete_file on the uploaded
\* address and answers with the failure.
RemoteFailureAbortsAtOnce ==
    [][/\ SubmitFails =>
            /\ recognition' \in {submit_task(r) : r \in SubmitReplies}
            /\ recognition'.raised
            /\ calls' = [NoCalls EXCEPT !.submit = 1]
       /\ QueryFails =>
            /\ recognition' \in {Raised(query_task_error(r)) : r \in QueryReplies}
            /\ calls' = [calls EXCEPT !.query = @ + 1]
            /\ calls.sleep' = calls.query
       /\ FetchFails =>
            /\ \/ recognition' \in {Raised(get_transcription_text_error(r)) : r \in FetchReplies}
               \/ recognition' = get_transcription_text(fetched')
            /\ calls' = [calls EXCEPT !.fetch = 1]
       /\ (SubmitFails \/ QueryFails \/ FetchFails) =>
            /\ pc' = "done"
            /\ CleanedUp'
            /\ response' = AnswerFor(recognition')
       /\ pc \notin {"done", "cancelled"}]_vars

C28Witness ==
    /\ Finished
    /\ recognition = Raised(query_task_error([kind |-> "fault", message |-> "ConnectTimeout"]))
    /\ calls.query = 2
    /\ calls.sleep = 1
    /\ calls.fetch = 0
    /\ CleanedUp

-----------------------------------------------------------------------------
(* Properties of the object store, continued *)

\* the keys upload_audio can generate for the file name of the request
GeneratedKeys ==
    {ObjectName(t, u, FileExtension(filename)) : t \in Timestamps, u \in UniqueIds}

\* C29: the key delete_file extracts from the address upload_audio returned
\* is the key upload_audio generated, for every extension recognize_audio
\* derives from the file name (the part after its last dot, "wav" when the
\* name has no dot or is missing).
KeyRoundTrips ==
    /\ \A k \in GeneratedKeys : ExtractObjectName(PublicUrl(k)) = k
    /\ Uploaded =>
          /\ upload.object_name \in GeneratedKeys
          /\ upload.url = file_url
          /\ ExtractObjectName(file_url) = upload.object_name
          /\ \A i \in 1..Len(delete_calls) :
                delete_calls[i].object_name = upload.object_name

C29Witness ==
    /\ Finished /\ Uploaded
    /\ filename = "bkt.oss-cn.aliyuncs.com/k"
    /\ upload.object_name = "audio/20250101_093000_0a1b2c3d.com/k"
    /\ Len(delete_calls) = 1
    /\ delete_calls[1].object_name = "audio/20250101_093000_0a1b2c3d.com/k"

-----------------------------------------------------------------------------
(* Properties of extract_text, continued *)

\* C23 (as claimed): extract_text returns the nested output.text whenever
\* it is present, the empty string included; otherwise the flat text when
\* it is present; otherwise the empty string.
ExtractTextPrecedence ==
    extracted # Pending =>
        extracted = Returned(IF NestedTextPresent(envelope) THEN envelope.output.text
                             ELSE IF envelope.has_text THEN envelope.text
                             ELSE "")

-----------------------------------------------------------------------------
(* Properties of the Supabase client *)

\* C26: get_supabase_client makes the client at most once per process and
\* every call returns that one instance, also a call whose settings differ
\* from those of the call that made it.
ClientCreatedOnce ==
    /\ [](/\ \A i \in 1..Len(auth_log) :
               /\ auth_log[i].client = auth_log[1].client
               /\ auth_log[i].client = create_client(auth_log[1].supabase_url)
               /\ auth_log[i].client = supabase_client
          /\ auth_log = <<>> <=> supabase_client = NoClient)
    /\ [][supabase_client # NoClient => supabase_client' = supabase_client]_vars

C26Witness ==
    /\ Len(auth_log) = 2
    /\ auth_log[1].supabase_url # auth_log[2].supabase_url
    /\ auth_log[2].client = create_client(auth_log[1].supabase_url)
    /\ auth_log[2].client = supabase_client

-----------------------------------------------------------------------------
(* Properties of the cache *)

\* what the caller of get_plans_by_user_cached passes: user_id and token
VisibleArguments(call) == <<call.arguments.user_id, AccessToken(call.arguments.user_id)>>

\* the step is the lookup of a new call; NewCall is that call
IsLookup == Len(wrapper_calls') = Len(wrapper_calls) + 1
NewCall == wrapper_calls'[Len(wrapper_calls')]

\* the step is the return of a wrapped function; NewStore is its store
IsStore == Len(stores') = Len(stores) + 1
NewStore == stores'[Len(stores')]

\* C24 (as claimed): a call of the cached function with the same user_id
\* and access_token as a call whose result was stored, made before the ttl
\* of that store has elapsed, returns a stored result and does not execute
\* the wrapped function.
CachedCallNotRepeated ==
    [][IsLookup =>
          \A n \in 1..Len(stores) :
             (/\ VisibleArguments(NewCall) = VisibleArguments(wrapper_calls[stores[n].call])
              /\ clock < stores[n].expires_at) =>
                 /\ NewCall.hit
                 /\ NewCall.state = "returned"
                 /\ \E m \in 1..Len(stores) : NewCall.value = stores[m].value]_vars

\* C25: the cache never serves an expired entry: a lookup returns the
\* stored value only while the clock is strictly before expires_at; at or
\* after it the lookup finds nothing and removes the entry, the wrapped
\* function is executed again, and its return stores an entry that
\* expires ttl_seconds after that return.
NeverServesExpired ==
    /\ [](\A c \in 1..Len(wrapper_calls) :
             /\ wrapper_calls[c].hit => wrapper_calls[c].found = "fresh"
             /\ wrapper_calls[c].found = "expired" => ~wrapper_calls[c].hit)
    /\ [][/\ IsLookup =>
               /\ NewCall.hit =>
                     /\ NewCall.cache_key \in DOMAIN cache
                     /\ clock < cache[NewCall.cache_key].expires_at
                     /\ NewCall.value = cache[NewCall.cache_key].value
               /\ (/\ NewCall.cache_key \in DOMAIN cache
                   /\ clock >= cache[NewCall.cache_key].expires_at) =>
                     /\ NewCall.found = "expired"
                     /\ NewCall.value = None
                     /\ NewCall.state = "executing"
                     /\ NewCall.cache_key \notin DOMAIN cache'
          /\ IsStore =>
               /\ NewStore.cache_key \in DOMAIN cache'
               /\ cache'[NewStore.cache_key] =
                     [value |-> NewStore.value, expires_at |-> clock + ttl_seconds]
               /\ clock < cache'[NewStore.cache_key].expires_at]_vars

C25Witness ==
    /\ Len(wrapper_calls) = 2
    /\ wrapper_calls[1].cache_key = wrapper_calls[2].cache_key
    /\ wrapper_calls[2].found = "expired"
    /\ wrapper_calls[2].state = "returned"
    /\ ~wrapper_calls[2].hit
    /\ Len(stores) = 2
    /\ stores[2].call = 2
    /\ stores[2].expires_at = stores[1].expires_at + ttl_seconds
    /\ cache[wrapper_calls[2].cache_key].expires_at = stores[2].expires_at

\* the last store under a key
LastStore(key) ==
    CHOOSE n \in 1..Len(stores) :
        /\ stores[n].cache_key = key
        /\ \A m \in (n + 1)..Len(stores) : stores[m].cache_key # key

\* C30: the wrapper has no single-flight guarantee: a call whose lookup
\* finds nothing executes the wrapped function also while another call
\* with the same key is executing it; each execution that returns stores
\* its result, a later store replacing an earlier one, so the cache holds
\* one entry for the key, that of the execution that returned last.
NoSingleFlight ==
    /\ [](/\ \A k \in DOMAIN cache :
                /\ \E n \in 1..Len(stores) : stores[n].cache_key = k
                /\ cache[k] = [value |-> stores[LastStore(k)].value,
                               expires_at |-> stores[LastStore(k)].expires_at]
          /\ \A n, m \in 1..Len(stores) : stores[n].call = stores[m].call => n = m
          /\ \A c \in 1..Len(wrapper_calls) :
                (~wrapper_calls[c].hit /\ wrapper_calls[c].state = "returned") =>
                    \E n \in 1..Len(stores) :
                       /\ stores[n].call = c
                       /\ stores[n].cache_key = wrapper_calls[c].cache_key
                       /\ stores[n].value = wrapper_calls[c].value)
    /\ [][IsLookup =>
             (NewCall.found # "fresh" => NewCall.state = "executing" /\ ~NewCall.hit)]_vars

C30Witness ==
    /\ Len(wrapper_calls) = 2
    /\ wrapper_calls[1].cache_key = wrapper_calls[2].cache_key
    /\ wrapper_calls[2].found = "absent"
    /\ wrapper_calls[1].state = "returned" /\ wrapper_calls[2].state = "returned"
    /\ stores = <<[call |-> 2, cache_key |-> wrapper_calls[2].cache_key,
                   value |-> "[]", expires_at |-> ttl_seconds],
                  [call |-> 1, cache_key |-> wrapper_calls[1].cache_key,
                   value |-> "[plan-1]", expires_at |-> ttl_seconds + ttl_seconds \div 2]>>
    /\ cache[wrapper_calls[1].cache_key].value = "[plan-1]"

====
